---- MODULE Spec2Model ----
(***************************************************************************)
(* A model of the FreeCAD Gridfinity workbench:                            *)
(*   - commands.py: the command objects (IsActive / Activated) and the     *)
(*     view provider's icon-path serialization;                            *)
(*   - feature_construction.py: the shape builders, as pure functions of   *)
(*     the document object's properties.                                   *)
(* Lengths are exact fixed-point numbers (see mm below); kernel shapes are *)
(* records of the arguments the kernel constructors were given.            *)
(***************************************************************************)
EXTENDS Integers, Sequences, FiniteSets, TLC

VARIABLES
    ActiveDocument, \* fc.ActiveDocument: None, or the sequence of its objects
    GuiUp,          \* fc.GuiUp
    selection,      \* number of objects in fcg.Selection
    isActive,       \* the last IsActive() call and what it returned, or None
    lastCall,       \* the last Activated() call: document before/after, calls made
    providers,      \* ViewProviderGridfinity instances: name -> instance __dict__
    saved,          \* the state last written by dumps() (the saved document)
    lastOp,         \* the last ViewProviderGridfinity method call and its result
    obj,            \* the document object handed to the feature constructions
    ret,            \* the last feature construction call and its result
    selectionEx,    \* fcg.Selection.getSelectionEx(): the selection objects
    shelfActive     \* the last StandaloneLabelShelf.IsActive() call and its result

vars == <<ActiveDocument, GuiUp, selection, isActive, lastCall,
          providers, saved, lastOp, obj, ret, selectionEx, shelfActive>>

cmdVars  == <<ActiveDocument, GuiUp, selection, isActive, lastCall>>
vpVars   == <<providers, saved, lastOp>>
geomVars == <<obj, ret>>
shelfVars == <<selectionEx, shelfActive>>

\* Python's None, for string-valued attributes.
None == "None"

\* An optional structured value: absent (None) or present.
Absent == <<>>
Some(x) == <<x>>

-----------------------------------------------------------------------------
(* Bounds of the model *)

MaxObjects == 2     \* objects a document may hold
MaxSelection == 2   \* objects that may be selected
MaxDividers == 2    \* xDividers, yDividers range over 0..MaxDividers
MaxGridUnits == 2   \* xGridUnits, yGridUnits range over 0..MaxGridUnits
MaxVertexes == 3    \* vertices of a selected face
MaxHeight == 3      \* vertex heights range over 0..MaxHeight, in units of 0.5e-4

-----------------------------------------------------------------------------
(***************************************************************************)
(* commands.py: command objects                                            *)
(***************************************************************************)

\* The icon directory: paths are modelled as strings relative to it.
ICONDIR(file) == file

\* The command instances the model exercises (commands.py registers sixteen
\* of them, which differ only in these three constants).
CreateBinBlank ==
    [cls |-> "CreateCommand", name |-> "BinBlank",
     gridfinity_function |-> "BinBlank", pixmap |-> ICONDIR("BinBlank.svg")]

CreateEcoBin ==
    [cls |-> "CreateCommand", name |-> "EcoBin",
     gridfinity_function |-> "EcoBin", pixmap |-> ICONDIR("eco_bin.svg")]

CreateCustomBlankBin ==
    [cls |-> "DrawCommand", name |-> "CustomBlankBin",
     gridfinity_function |-> "CustomBlankBin",
     pixmap |-> ICONDIR("CustomBlankBin.svg")]

CreateCommands == {CreateBinBlank, CreateEcoBin}
DrawCommands == {CreateCustomBlankBin}
Commands == CreateCommands \cup DrawCommands

\* What custom_shape.get_layout() may return: a layout, or None when the
\* user cancels the drawing dialog.
Layouts == {"layoutA", "layoutB"}

\* A mutant of IsActive: active only while something is selected.
BaseCommand_IsActive_selection(doc, sel, gui) == doc # Absent /\ sel > 0

\* BaseCommand.IsActive: fc.ActiveDocument is not None.
BaseCommand_IsActive(doc, sel, gui) == doc # Absent

\* utils.new_object(name): adds one object called name to the active
\* document and returns it (here: its index in the document).
new_object(doc, name) ==
    Append(doc, [Name |-> name, Proxy |-> None, ViewProxy |-> None,
                 layout |-> None, recomputed |-> FALSE])

\* The default icon of a view provider.
DefaultIcon == ICONDIR("gridfinity_workbench_icon.svg")

(* ViewProviderGridfinity: an instance is its __dict__, a set of
   <<attribute, value>> pairs. *)
hasattr(d, key) == \E kv \in d : kv[1] = key
getattr(d, key) ==
    IF hasattr(d, key) THEN (CHOOSE kv \in d : kv[1] = key)[2] ELSE "AttributeError"
setattr(d, key, value) == {kv \in d : kv[1] # key} \cup {<<key, value>>}

\* A mutant of _check_attr: the missing attribute is left missing.
ViewProviderGridfinity_check_attr_noop(self) == self

\* ViewProviderGridfinity._check_attr
ViewProviderGridfinity_check_attr(self) ==
    IF ~hasattr(self, "icon_path")
    THEN setattr(self, "icon_path", DefaultIcon)
    ELSE self

\* ViewProviderGridfinity.__init__ on a fresh instance.
ViewProviderGridfinity_init(icon_path) ==
    setattr(ViewProviderGridfinity_check_attr({}), "icon_path",
            IF icon_path # "" THEN icon_path ELSE DefaultIcon)

\* ViewProviderGridfinity.getIcon: the instance afterwards, and the result.
ViewProviderGridfinity_getIcon(self) ==
    LET s1 == ViewProviderGridfinity_check_attr(self)
    IN [self |-> s1, ret |-> getattr(s1, "icon_path")]

\* A mutant of dumps: the default icon is written, not the instance's.
ViewProviderGridfinity_dumps_default(self) ==
    LET s1 == ViewProviderGridfinity_check_attr(self)
    IN [self |-> s1, ret |-> {<<"icon_path", DefaultIcon>>}]

\* ViewProviderGridfinity.dumps
ViewProviderGridfinity_dumps(self) ==
    LET s1 == ViewProviderGridfinity_check_attr(self)
    IN [self |-> s1, ret |-> {<<"icon_path", getattr(s1, "icon_path")>>}]

\* ViewProviderGridfinity.loads: `state` is Absent (None) or Some(dict).
ViewProviderGridfinity_loads(self, state) ==
    IF state # Absent /\ state[1] # {} /\ hasattr(state[1], "icon_path")
    THEN setattr(self, "icon_path", getattr(state[1], "icon_path"))
    ELSE self

\* ViewProviderGridfinity(view_object, str(self.pixmap)) in Activated: the
\* view object's Proxy, recorded by the icon path it holds.
ViewProviderGridfinity_icon(icon_path) ==
    getattr(ViewProviderGridfinity_init(icon_path), "icon_path")

\* fc.ActiveDocument.recompute(): every object of the document is recomputed.
recompute(doc) == [i \in 1..Len(doc) |-> [doc[i] EXCEPT !.recomputed = TRUE]]

\* The running state of one Activated() call: the document, the host calls
\* made so far, and whether an exception has ended the call.
StartCall(doc) == [doc |-> doc, events |-> <<>>, raised |-> FALSE]

Step_new_object(s, name) ==
    IF s.raised THEN s
    ELSE [s EXCEPT !.doc = new_object(s.doc, name),
                   !.events = Append(s.events, <<"new_object", name>>)]

Step_ViewProvider(s, gui, pixmap) ==
    IF s.raised \/ ~gui THEN s
    ELSE [s EXCEPT !.doc[Len(s.doc)].ViewProxy = ViewProviderGridfinity_icon(pixmap),
                   !.events = Append(s.events, <<"ViewProviderGridfinity", pixmap>>)]

\* self.gridfinity_function(obj[, layout]): the feature constructor runs on
\* the new object; a host exception in it propagates out of Activated.
Step_gridfinity_function(s, fn, layout, raises) ==
    IF s.raised THEN s
    ELSE IF raises
    THEN [s EXCEPT !.raised = TRUE,
                   !.events = Append(s.events, <<"raise", fn>>)]
    ELSE [s EXCEPT !.doc[Len(s.doc)].Proxy = fn,
                   !.doc[Len(s.doc)].layout = layout,
                   !.events = Append(s.events, <<"gridfinity_function", fn, layout>>)]

Step_recompute(s) ==
    IF s.raised THEN s
    ELSE [s EXCEPT !.doc = recompute(s.doc),
                   !.events = Append(s.events, <<"recompute">>)]

Step_ViewFit(s) ==
    IF s.raised THEN s
    ELSE [s EXCEPT !.events = Append(s.events, <<"SendMsgToActiveView", "ViewFit">>)]

\* A mutant of CreateCommand.Activated: the document is recomputed before
\* the feature constructor has run.
CreateCommand_Activated_recomputeFirst(self, doc, gui, raises) ==
    Step_ViewFit(
      Step_gridfinity_function(
        Step_recompute(
          Step_ViewProvider(
            Step_new_object(StartCall(doc), self.name),
            gui, self.pixmap)),
        self.gridfinity_function, None, raises))

\* CreateCommand.Activated
CreateCommand_Activated(self, doc, gui, raises) ==
    Step_ViewFit(
      Step_recompute(
        Step_gridfinity_function(
          Step_ViewProvider(
            Step_new_object(StartCall(doc), self.name),
            gui, self.pixmap),
          self.gridfinity_function, None, raises)))

\* A mutant of DrawCommand.Activated: no early return on a missing layout.
DrawCommand_Activated_noEarlyReturn(self, doc, gui, layout, raises) ==
    Step_ViewFit(
      Step_recompute(
        Step_gridfinity_function(
          Step_ViewProvider(
            Step_new_object(StartCall(doc), self.name),
            gui, self.pixmap),
          self.gridfinity_function, layout, raises)))

\* DrawCommand.Activated
DrawCommand_Activated(self, doc, gui, layout, raises) ==
    IF layout = None
    THEN StartCall(doc)
    ELSE Step_ViewFit(
           Step_recompute(
             Step_gridfinity_function(
               Step_ViewProvider(
                 Step_new_object(StartCall(doc), self.name),
                 gui, self.pixmap),
               self.gridfinity_function, layout, raises)))

(* The host: documents are opened and closed, the selection changes. *)
NewDocument ==
    /\ ActiveDocument = Absent
    /\ ActiveDocument' = Some(<<>>)
    /\ isActive' = Absent
    /\ UNCHANGED <<GuiUp, selection, lastCall>>
    /\ UNCHANGED <<vpVars, geomVars, shelfVars>>

CloseDocument ==
    /\ ActiveDocument # Absent
    /\ ActiveDocument' = Absent
    /\ isActive' = Absent
    /\ selection' = 0
    /\ UNCHANGED <<GuiUp, lastCall>>
    /\ UNCHANGED <<vpVars, geomVars, shelfVars>>

Select ==
    /\ ActiveDocument # Absent
    /\ \E n \in 0..MaxSelection :
         /\ n <= Len(ActiveDocument[1])
         /\ n # selection
         /\ selection' = n
    /\ UNCHANGED <<ActiveDocument, GuiUp, isActive, lastCall>>
    /\ UNCHANGED <<vpVars, geomVars, shelfVars>>

\* The host polls a command's IsActive().
IsActive ==
    /\ \E self \in Commands :
         isActive' = Some([self |-> self.name,
                           result |-> BaseCommand_IsActive(ActiveDocument, selection, GuiUp)])
    /\ UNCHANGED <<ActiveDocument, GuiUp, selection, lastCall>>
    /\ UNCHANGED <<vpVars, geomVars, shelfVars>>

\* The host runs Activated() of a command only while its IsActive() holds.
CreateActivated ==
    /\ BaseCommand_IsActive(ActiveDocument, selection, GuiUp)
    /\ Len(ActiveDocument[1]) < MaxObjects
    /\ \E self \in CreateCommands, raises \in BOOLEAN :
         LET s == CreateCommand_Activated(self, ActiveDocument[1], GuiUp, raises)
         IN /\ ActiveDocument' = Some(s.doc)
            /\ lastCall' = Some([self |-> self, layout |-> None,
                                 before |-> ActiveDocument[1], after |-> s.doc,
                                 events |-> s.events, raised |-> s.raised])
    /\ UNCHANGED <<GuiUp, selection, isActive>>
    /\ UNCHANGED <<vpVars, geomVars, shelfVars>>

DrawActivated ==
    /\ BaseCommand_IsActive(ActiveDocument, selection, GuiUp)
    /\ Len(ActiveDocument[1]) < MaxObjects
    /\ \E self \in DrawCommands, layout \in Layouts \cup {None}, raises \in BOOLEAN :
         LET s == DrawCommand_Activated(self, ActiveDocument[1], GuiUp, layout, raises)
         IN /\ ActiveDocument' = Some(s.doc)
            /\ lastCall' = Some([self |-> self, layout |-> layout,
                                 before |-> ActiveDocument[1], after |-> s.doc,
                                 events |-> s.events, raised |-> s.raised])
    /\ UNCHANGED <<GuiUp, selection, isActive>>
    /\ UNCHANGED <<vpVars, geomVars, shelfVars>>

\* The variables of the other parts of the model, at rest.
VpIdle == providers = Absent /\ saved = Absent /\ lastOp = Absent
GeomIdle == obj = Absent /\ ret = Absent
ShelfIdle == selectionEx = <<>> /\ shelfActive = Absent
CmdIdle ==
    /\ ActiveDocument = Absent /\ GuiUp = FALSE /\ selection = 0
    /\ isActive = Absent /\ lastCall = Absent

InitCmd ==
    /\ ActiveDocument = Absent
    /\ GuiUp \in BOOLEAN
    /\ selection = 0
    /\ isActive = Absent
    /\ lastCall = Absent
    /\ VpIdle /\ GeomIdle /\ ShelfIdle

NextCmd ==
    \/ NewDocument
    \/ CloseDocument
    \/ Select
    \/ IsActive
    \/ CreateActivated
    \/ DrawActivated

SpecCmd == InitCmd /\ [][NextCmd]_vars

-----------------------------------------------------------------------------
(* Claims on the commands *)

\* C1: for every Create*/Draw* command, IsActive() returns True exactly when
\* there is an active document, whatever the selection and whether or not the
\* GUI is up.
C1_IsActiveIffActiveDocument ==
    isActive # Absent =>
        /\ isActive[1].self \in {c.name : c \in Commands}
        /\ isActive[1].result = (ActiveDocument # Absent)

C1_Witness ==
    /\ isActive # Absent /\ isActive[1].result = TRUE
    /\ selection = 0 /\ GuiUp = FALSE

\* The calls CreateCommand.Activated is to make, in order.
C2_Order(self, gui) ==
    <<  <<"new_object", self.name>>  >>
    \o (IF gui THEN << <<"ViewProviderGridfinity", self.pixmap>> >> ELSE <<>>)
    \o << <<"gridfinity_function", self.gridfinity_function, None>>,
          <<"recompute">>,
          <<"SendMsgToActiveView", "ViewFit">> >>

IsPrefixOf(s, t) == Len(s) <= Len(t) /\ s = SubSeq(t, 1, Len(s))

\* C2: every CreateCommand.Activated call creates exactly one object, named
\* after the command, and makes its calls in the order new_object, view
\* provider (only with the GUI up), feature constructor, recompute, ViewFit;
\* the recompute never comes before the feature constructor has run on the
\* new object.
C2_CreateActivatedOrder ==
    (lastCall # Absent /\ lastCall[1].self.cls = "CreateCommand") =>
        LET e == lastCall[1].events
            n == Len(lastCall[1].before)
        IN /\ Len(lastCall[1].after) = n + 1
           /\ \A i \in 1..n : lastCall[1].after[i].Name = lastCall[1].before[i].Name
           /\ lastCall[1].after[n + 1].Name = lastCall[1].self.name
           /\ IF lastCall[1].raised
              THEN IsPrefixOf(SubSeq(e, 1, Len(e) - 1), C2_Order(lastCall[1].self, GuiUp))
              ELSE e = C2_Order(lastCall[1].self, GuiUp)
           /\ \A i \in 1..Len(e) :
                e[i] = <<"recompute">> =>
                    /\ \E j \in 1..(i - 1) : e[j][1] = "gridfinity_function"
                    /\ lastCall[1].after[n + 1].Proxy = lastCall[1].self.gridfinity_function
           /\ (\E i \in 1..Len(e) : e[i][1] = "ViewProviderGridfinity") <=> GuiUp

C2_Witness ==
    /\ lastCall # Absent /\ lastCall[1].self.cls = "CreateCommand"
    /\ ~lastCall[1].raised /\ GuiUp
    /\ Len(lastCall[1].before) = 1
    /\ lastCall[1].after[2].recomputed

\* C3: DrawCommand.Activated with no layout leaves the document as it was
\* and makes no call (no object, no constructor, no recompute, no ViewFit);
\* with a layout it creates exactly one object and hands that same layout to
\* the feature constructor before the recompute.
C3_DrawActivatedLayout ==
    (lastCall # Absent /\ lastCall[1].self.cls = "DrawCommand") =>
        LET e == lastCall[1].events
            n == Len(lastCall[1].before)
        IN IF lastCall[1].layout = None
           THEN /\ lastCall[1].after = lastCall[1].before
                /\ e = <<>>
                /\ ~lastCall[1].raised
           ELSE /\ Len(lastCall[1].after) = n + 1
                /\ \A i \in 1..n : lastCall[1].after[i].Name = lastCall[1].before[i].Name
                /\ Cardinality({i \in 1..Len(e) : e[i][1] = "new_object"}) = 1
                /\ ~lastCall[1].raised =>
                     \E i, j \in 1..Len(e) :
                        /\ i < j
                        /\ e[i] = <<"gridfinity_function",
                                    lastCall[1].self.gridfinity_function, lastCall[1].layout>>
                        /\ e[j] = <<"recompute">>
                        /\ lastCall[1].after[n + 1].layout = lastCall[1].layout
                /\ \A j \in 1..Len(e) :
                     e[j] = <<"recompute">> =>
                        \E i \in 1..(j - 1) : e[i][1] = "gridfinity_function"

C3_Witness ==
    /\ lastCall # Absent /\ lastCall[1].self.cls = "DrawCommand"
    /\ lastCall[1].layout = None
    /\ Len(lastCall[1].before) = 1
    /\ ActiveDocument = Some(lastCall[1].before)

C3_WitnessLayout ==
    /\ lastCall # Absent /\ lastCall[1].self.cls = "DrawCommand"
    /\ lastCall[1].layout = "layoutB" /\ ~lastCall[1].raised

-----------------------------------------------------------------------------
(***************************************************************************)
(* commands.py: ViewProviderGridfinity                                     *)
(*                                                                         *)
(* An instance is its __dict__, a set of <<attribute, value>> pairs; the   *)
(* state dumps() returns and loads() receives is a dict of the same shape, *)
(* or None.                                                                *)
(***************************************************************************)

\* The provider instances of the model.
Providers == {"p", "q"}

\* The icon_path arguments given to __init__: a command's pixmap, or empty.
IconArgs == {"", ICONDIR("BinBlank.svg"), ICONDIR("eco_bin.svg")}

\* States a document may hold that no dumps() of this class wrote: None, an
\* empty dict, a dict without the key.
LegacyStates == {Absent, Some({}), Some({<<"vobj", "view">>})}

\* The host creates a provider through __init__ (a command's Activated) ...
VP_init ==
    /\ \E i \in Providers, icon_path \in IconArgs :
         /\ providers[i] = Absent
         /\ providers' = [providers EXCEPT ![i] = Some(ViewProviderGridfinity_init(icon_path))]
         /\ lastOp' = Some([op |-> "__init__", self |-> i, before |-> {},
                            icon |-> icon_path, state |-> Absent, from |-> None])
    /\ UNCHANGED saved
    /\ UNCHANGED <<cmdVars, geomVars, shelfVars>>

\* ... or, opening a document, without __init__ (loads follows).
VP_restore ==
    /\ \E i \in Providers :
         /\ providers[i] = Absent
         /\ providers' = [providers EXCEPT ![i] = Some({})]
         /\ lastOp' = Some([op |-> "restore", self |-> i, before |-> {},
                            icon |-> None, state |-> Absent, from |-> None])
    /\ UNCHANGED saved
    /\ UNCHANGED <<cmdVars, geomVars, shelfVars>>

\* The object is deleted, or the document closed.
VP_delete ==
    /\ \E i \in Providers :
         /\ providers[i] # Absent
         /\ providers' = [providers EXCEPT ![i] = Absent]
    /\ lastOp' = Absent
    /\ UNCHANGED saved
    /\ UNCHANGED <<cmdVars, geomVars, shelfVars>>

VP_getIcon ==
    /\ \E i \in Providers :
         /\ providers[i] # Absent
         /\ LET r == ViewProviderGridfinity_getIcon(providers[i][1])
            IN /\ providers' = [providers EXCEPT ![i] = Some(r.self)]
               /\ lastOp' = Some([op |-> "getIcon", self |-> i,
                                  before |-> providers[i][1],
                                  icon |-> r.ret, state |-> Absent, from |-> None])
    /\ UNCHANGED saved
    /\ UNCHANGED <<cmdVars, geomVars, shelfVars>>

\* Saving the document: the state dumps() returns is stored.  `path` is the
\* icon path the dumped provider had (what its getIcon() returned).
VP_dumps ==
    /\ \E i \in Providers :
         /\ providers[i] # Absent
         /\ LET r == ViewProviderGridfinity_dumps(providers[i][1])
                s == ViewProviderGridfinity_getIcon(providers[i][1]).ret
            IN /\ providers' = [providers EXCEPT ![i] = Some(r.self)]
               /\ saved' = Some([state |-> Some(r.ret), path |-> s])
               /\ lastOp' = Some([op |-> "dumps", self |-> i,
                                  before |-> providers[i][1],
                                  icon |-> None, state |-> Some(r.ret), from |-> s])
    /\ UNCHANGED <<cmdVars, geomVars, shelfVars>>

\* Opening a document: loads() receives the state a dumps() wrote, or a
\* legacy state.
VP_loads ==
    /\ \E i \in Providers :
         /\ providers[i] # Absent
         /\ \E in \in {[state |-> st, path |-> None] : st \in LegacyStates}
                      \cup {saved[k] : k \in 1..Len(saved)} :
              /\ providers' =
                    [providers EXCEPT ![i] = Some(ViewProviderGridfinity_loads(providers[i][1], in.state))]
              /\ lastOp' = Some([op |-> "loads", self |-> i,
                                 before |-> providers[i][1],
                                 icon |-> None, state |-> in.state, from |-> in.path])
    /\ UNCHANGED saved
    /\ UNCHANGED <<cmdVars, geomVars, shelfVars>>

InitVP ==
    /\ providers = [i \in Providers |-> Absent]
    /\ saved = Absent
    /\ lastOp = Absent
    /\ CmdIdle /\ GeomIdle /\ ShelfIdle

NextVP ==
    \/ VP_init
    \/ VP_restore
    \/ VP_delete
    \/ VP_getIcon
    \/ VP_dumps
    \/ VP_loads

SpecVP == InitVP /\ [][NextVP]_vars

-----------------------------------------------------------------------------
(* Claims on the view provider *)

\* C4: serialization round-trips: after q.loads(p.dumps()), q.getIcon()
\* returns the icon path p had; and dumps() leaves an icon path that is
\* already set as it was.
C4_DumpsLoadsRoundTrip ==
    lastOp # Absent =>
        LET o == lastOp[1]
            now == providers[o.self][1]
        IN /\ (o.op = "loads" /\ o.from # None) =>
                 ViewProviderGridfinity_getIcon(now).ret = o.from
           /\ (o.op = "dumps") =>
                 /\ o.state = Some({<<"icon_path", o.from>>})
                 /\ hasattr(o.before, "icon_path") =>
                      /\ now = o.before
                      /\ o.from = getattr(o.before, "icon_path")

\* q has loaded what another provider with another icon path dumped.
C4_Witness ==
    /\ lastOp # Absent
    /\ lastOp[1].op = "loads" /\ lastOp[1].self = "q"
    /\ lastOp[1].from = ICONDIR("eco_bin.svg")
    /\ getattr(lastOp[1].before, "icon_path") = ICONDIR("BinBlank.svg")
    /\ providers["p"] = Some({<<"icon_path", ICONDIR("eco_bin.svg")>>})

\* C5: whatever calls were made, getIcon() and dumps() yield a defined,
\* non-empty icon path; an instance without icon_path (restored without
\* __init__, or given an empty state or one without the key) and an instance
\* constructed with an empty path use the default icon, and loads() with such
\* a state leaves an icon path that is set as it was.
C5_IconPathDefined ==
    /\ \A i \in Providers :
         providers[i] # Absent =>
            LET d == providers[i][1]
                g == ViewProviderGridfinity_getIcon(d).ret
                s == ViewProviderGridfinity_dumps(d).ret
            IN /\ g \notin {"", "AttributeError", None}
               /\ getattr(s, "icon_path") = g
               /\ ~hasattr(d, "icon_path") => g = DefaultIcon
    /\ lastOp # Absent =>
         LET o == lastOp[1]
             now == providers[o.self][1]
         IN /\ (o.op = "__init__" /\ o.icon = "") =>
                  getattr(now, "icon_path") = DefaultIcon
            /\ (o.op = "__init__" /\ o.icon # "") =>
                  getattr(now, "icon_path") = o.icon
            /\ (o.op = "loads" /\ o.state \in LegacyStates) => now = o.before
            /\ (o.op = "getIcon") =>
                  /\ o.icon \notin {"", "AttributeError", None}
                  /\ hasattr(o.before, "icon_path") => now = o.before

\* A provider restored without __init__ was given a state without the key,
\* and still has no icon_path attribute.
C5_Witness ==
    /\ lastOp # Absent
    /\ lastOp[1].op = "loads" /\ lastOp[1].state = Some({<<"vobj", "view">>})
    /\ providers[lastOp[1].self] = Some({})

\* A provider constructed with an empty icon path.
C5_WitnessEmptyArg ==
    /\ lastOp # Absent
    /\ lastOp[1].op = "__init__" /\ lastOp[1].icon = ""

-----------------------------------------------------------------------------
(***************************************************************************)
(* commands.py: StandaloneLabelShelf.IsActive                              *)
(*                                                                         *)
(* A selection object has an Object (with or without a Baseplate           *)
(* attribute) and SubObjects; a sub-object may have a ShapeType, findPlane *)
(* returns a plane or None, and its vertices are given by their heights z  *)
(* in units of half the tolerance.                                         *)
(***************************************************************************)

\* 1e-4, in units of vertex height.
Tolerance == 2

\* The heights of the vertices of a face: at least one vertex.
Heights ==
    UNION {[1..n -> 0..MaxHeight] : n \in 1..MaxVertexes}

\* What the host may hand over as a sub-object of a selection.
SubObjects ==
    [ShapeType : {Absent, Some("Face"), Some("Edge")},
     findPlane : {Absent, Some("plane")},
     Vertexes : Heights]

\* What the host may hand over as the selected object.
SelectedObjects == [Baseplate : {Absent, Some(TRUE), Some(FALSE)}]

\* A bin's flat face with two vertices on top.
BinFace ==
    [ShapeType |-> Some("Face"), findPlane |-> Some("plane"), Vertexes |-> <<0, 3, 3>>]

\* The selections of the model: nothing; one object with one sub-object of
\* any kind; one bin with no or two faces; two bins with a face each.
Selections ==
    {<<>>}
    \cup {<<[Object |-> o, SubObjects |-> <<f>>]>> :
            o \in SelectedObjects, f \in SubObjects}
    \cup {<<[Object |-> [Baseplate |-> Some(FALSE)], SubObjects |-> subs]>> :
            subs \in {<<>>, <<BinFace, BinFace>>}}
    \cup {<<[Object |-> [Baseplate |-> Some(FALSE)], SubObjects |-> <<BinFace>>],
            [Object |-> [Baseplate |-> Some(FALSE)], SubObjects |-> <<BinFace>>]>>}

\* max([p.z for p in points])
max(zs) == CHOOSE h \in {zs[k] : k \in 1..Len(zs)} : \A k \in 1..Len(zs) : zs[k] <= h

\* A mutant of max_points: the vertices at the tolerance below the top count
\* as well.
max_points_inclusive(points, height) ==
    {k \in 1..Len(points) : points[k] >= height - Tolerance}

\* [p for p in points if p.z > height - 1e-4], by index
max_points(points, height) ==
    {k \in 1..Len(points) : points[k] > height - Tolerance}

\* StandaloneLabelShelf.IsActive
StandaloneLabelShelf_IsActive(sel) ==
    IF Len(sel) # 1 \/ Len(sel[1].SubObjects) # 1
    THEN FALSE
    ELSE LET o == sel[1].Object
             face == sel[1].SubObjects[1]
         IN IF o.Baseplate = Absent \/ o.Baseplate[1]
            THEN FALSE
            ELSE IF face.ShapeType = Absent \/ face.ShapeType[1] # "Face"
            THEN FALSE
            ELSE IF face.findPlane = Absent
            THEN FALSE
            ELSE LET points == face.Vertexes
                     height == max(points)
                 IN Cardinality(max_points(points, height)) = 2

\* The user selects something, nothing being selected before.
ShelfSelect ==
    /\ selectionEx = <<>>
    /\ \E sel \in Selections \ {<<>>} :
        /\ selectionEx' = sel
        /\ selection' = Len(sel)
    /\ shelfActive' = Absent
    /\ UNCHANGED <<ActiveDocument, GuiUp, isActive, lastCall>>
    /\ UNCHANGED <<vpVars, geomVars>>

\* The user clears the selection.
ShelfClearSelection ==
    /\ selectionEx # <<>>
    /\ selectionEx' = <<>>
    /\ selection' = 0
    /\ shelfActive' = Absent
    /\ UNCHANGED <<ActiveDocument, GuiUp, isActive, lastCall>>
    /\ UNCHANGED <<vpVars, geomVars>>

\* The host makes another document, or none, the active one.
ShelfActiveDocument ==
    /\ ActiveDocument' \in {Absent, Some(<<>>)} \ {ActiveDocument}
    /\ UNCHANGED <<GuiUp, selection, isActive, lastCall>>
    /\ UNCHANGED <<vpVars, geomVars, shelfVars>>

\* The host polls StandaloneLabelShelf.IsActive().
ShelfIsActive ==
    /\ shelfActive' = Some([ret |-> StandaloneLabelShelf_IsActive(selectionEx),
                            doc |-> ActiveDocument])
    /\ shelfActive' # shelfActive
    /\ UNCHANGED selectionEx
    /\ UNCHANGED <<cmdVars, vpVars, geomVars>>

InitShelf ==
    /\ CmdIdle /\ VpIdle /\ GeomIdle /\ ShelfIdle

NextShelf ==
    \/ ShelfSelect
    \/ ShelfClearSelection
    \/ ShelfActiveDocument
    \/ ShelfIsActive

SpecShelf == InitShelf /\ [][NextShelf]_vars

C11_WitnessBoundary ==
    /\ shelfActive # Absent
    /\ shelfActive[1].ret = TRUE
    /\ selectionEx[1].SubObjects[1].Vertexes = <<3, 3, 1>>

-----------------------------------------------------------------------------
(***************************************************************************)
(* feature_construction.py                                                 *)
(*                                                                         *)
(* Lengths (FreeCAD quantities, floats in the code) are exact multiples of *)
(* a unit chosen so that every division the code makes on them (by 2, by   *)
(* the number of compartments) is exact: cmm is 0.01 mm, mm is 1 mm.       *)
(***************************************************************************)

RECURSIVE Gcd(_, _)
Gcd(a, b) == IF b = 0 THEN a ELSE Gcd(b, a % b)

RECURSIVE LcmUpTo(_)
LcmUpTo(n) == IF n <= 1 THEN 1 ELSE (n * LcmUpTo(n - 1)) \div Gcd(n, LcmUpTo(n - 1))

cmm == 2 * LcmUpTo(MaxDividers + 1)
mm == 100 * cmm

\* unitmm = Units.Quantity("1 mm"), zeromm = Units.Quantity("0 mm")
unitmm == mm
zeromm == 0

\* SMALL_NUMBER = 0.01 (compared with lengths in mm)
SMALL_NUMBER == cmm

\* math.sin(math.pi / 4) * x and math.tan(math.pi / 8) * x, to four decimals.
SinPi4(x) == (x * 7071) \div 10000
TanPi8(x) == (x * 4142) \div 10000

Min(a, b) == IF a <= b THEN a ELSE b
Min4(a, b, c, d) == Min(Min(a, b), Min(c, d))

\* FreeCAD.Vector
Vector(x, y, z) == <<x, y, z>>
VecAdd(v, w) == <<v[1] + w[1], v[2] + w[2], v[3] + w[3]>>

(***************************************************************************)
(* The document object: the properties feature_construction.py reads.      *)
(* BaseObj holds the Gridfinity standard's values for a 1x1 bin, three     *)
(* height units high; the model's objects vary some of them.               *)
(***************************************************************************)
BaseObj ==
    [xGridUnits |-> 1, yGridUnits |-> 1,
     GridSize |-> 4200 * cmm, BinUnit |-> 4150 * cmm,
     xTotalWidth |-> 4150 * cmm, yTotalWidth |-> 4150 * cmm,
     TotalHeight |-> 2100 * cmm, HeightUnitValue |-> 700 * cmm,
     UsableHeight |-> 1400 * cmm,
     WallThickness |-> 100 * cmm, DividerThickness |-> 120 * cmm,
     xDividers |-> 0, yDividers |-> 0,
     xDividerHeight |-> 0, yDividerHeight |-> 0,
     InsideFilletRadius |-> 185 * cmm, ScoopRadius |-> 2100 * cmm,
     BinOuterRadius |-> 375 * cmm, BinVerticalRadius |-> 160 * cmm,
     BinBottomRadius |-> 80 * cmm,
     BaseProfileBottomChamfer |-> 80 * cmm, BaseProfileVerticalSection |-> 180 * cmm,
     BaseProfileTopChamfer |-> 215 * cmm, BaseProfileHeight |-> 475 * cmm,
     BaseWallThickness |-> 80 * cmm,
     StackingLip |-> TRUE, LabelShelfStackingOffset |-> 40 * cmm,
     StackingLipTopLedge |-> 40 * cmm, StackingLipTopChamfer |-> 70 * cmm,
     StackingLipBottomChamfer |-> 70 * cmm, StackingLipVerticalSection |-> 180 * cmm,
     MagnetHoles |-> TRUE, ScrewHoles |-> TRUE, MagnetHolesShape |-> "Round",
     MagnetHoleDiameter |-> 650 * cmm, MagnetHoleDepth |-> 240 * cmm,
     ScrewHoleDiameter |-> 300 * cmm, ScrewHoleDepth |-> 600 * cmm,
     MagnetHoleDistanceFromEdge |-> 800 * cmm,
     SequentialBridgingLayerHeight |-> 20 * cmm,
     LabelShelfWidth |-> 1200 * cmm, LabelShelfLength |-> 1000 * cmm,
     LabelShelfVerticalThickness |-> 200 * cmm, LabelShelfAngle |-> 45,
     LabelShelfPlacement |-> "Center", LabelShelfStyle |-> "Standard",
     BaseplateTopLedgeWidth |-> 50 * cmm, MagnetEdgeThickness |-> 120 * cmm,
     SmallFillet |-> 100 * cmm]

\* The outer width of a bin of n grid units (the grid less the clearance).
TotalWidth(n) == n * BaseObj.GridSize - (BaseObj.GridSize - BaseObj.BinUnit)

\* Bins with dividers, scoops and thick walls.
DividerObjs ==
    {[BaseObj EXCEPT !.xGridUnits = t[1], !.xTotalWidth = TotalWidth(t[1]),
                     !.WallThickness = t[2],
                     !.xDividers = t[3], !.yDividers = t[4],
                     !.xDividerHeight = t[5], !.UsableHeight = t[6],
                     !.ScoopRadius = t[7]] :
        t \in (1..MaxGridUnits) \X {100 * cmm, 500 * cmm}
              \X (0..MaxDividers) \X (0..MaxDividers)
              \X {0, 700 * cmm, 800 * cmm, 1200 * cmm}
              \X {0, 300 * cmm, 1400 * cmm}
              \X {500 * cmm, 2100 * cmm}}

\* Bins of every grid size, with and without magnet and screw holes.
GridObjs ==
    {[BaseObj EXCEPT !.xGridUnits = t[1], !.xTotalWidth = TotalWidth(t[1]),
                     !.yGridUnits = t[2], !.yTotalWidth = TotalWidth(t[2]),
                     !.MagnetHoles = t[3], !.ScrewHoles = t[4],
                     !.MagnetHolesShape = t[5]] :
        t \in (0..MaxGridUnits) \X (0..MaxGridUnits)
              \X BOOLEAN \X BOOLEAN \X {"Round", "Hex"}}

\* Bins with other radii and wall thicknesses, every property positive.
RadiusObjs ==
    {[BaseObj EXCEPT !.xGridUnits = t[1], !.xTotalWidth = TotalWidth(t[1]),
                     !.BinVerticalRadius = t[2], !.BaseWallThickness = t[3],
                     !.MagnetHoles = t[4], !.BinOuterRadius = t[5],
                     !.WallThickness = t[6],
                     !.xDividers = 1, !.yDividers = 1,
                     !.xDividerHeight = 700 * cmm, !.yDividerHeight = 700 * cmm] :
        t \in (1..MaxGridUnits) \X {160 * cmm, 121 * cmm, 81 * cmm}
              \X {80 * cmm, 200 * cmm} \X BOOLEAN \X {375 * cmm, 2500 * cmm}
              \X {100 * cmm, 500 * cmm}}

\* Bins with label shelves of every placement and style.
LabelObjs ==
    {[BaseObj EXCEPT !.xDividers = t[1], !.yDividers = t[2],
                     !.LabelShelfPlacement = t[3], !.LabelShelfStyle = t[4],
                     !.LabelShelfAngle = t[5], !.LabelShelfLength = t[6],
                     !.UsableHeight = t[7]] :
        t \in (0..1) \X (0..1)
              \X {"Center", "Full Width", "Left", "Right"}
              \X {"Standard", "Overhang"}
              \X {0, 45} \X {1000 * cmm, 5000 * cmm}
              \X {300 * cmm, 1400 * cmm}}

\* Tall bins with large scoops.
ScoopObjs ==
    {[BaseObj EXCEPT !.xGridUnits = t[1], !.xTotalWidth = TotalWidth(t[1]),
                     !.xDividers = t[2], !.ScoopRadius = t[3],
                     !.UsableHeight = t[4], !.TotalHeight = t[4] + 700 * cmm] :
        t \in (1..MaxGridUnits) \X (0..MaxDividers)
              \X {2100 * cmm, 4500 * cmm} \X {1400 * cmm, 5000 * cmm}}

Objs == DividerObjs \cup GridObjs \cup RadiusObjs \cup LabelObjs \cup ScoopObjs

(***************************************************************************)
(* Kernel shapes are records of what the kernel constructor was given.     *)
(***************************************************************************)

\* Utils.copy_and_translate(shape, vec_list): one copy of the shape per
\* vector, each translated by it.
copy_and_translate(shape, vec_list) ==
    [kind |-> "copies", shape |-> shape, at |-> vec_list]

\* The console message make_scoop prints when no scoop can be made.
ScoopMessage == "scooop could not be made due to bin selected parameters\n"

\* A mutant of the degenerate-radius test: a radius of zero is let through.
scoop_degenerate_strict(scooprad) == scooprad < 0

\* make_scoop: `if scooprad <= 0`
scoop_degenerate(scooprad) == scooprad <= 0

\* make_scoop: the width of one compartment in x.
scoop_xcomp_w(o) ==
    (o.xTotalWidth - o.WallThickness * 2 - o.xDividers * o.DividerThickness)
        \div (o.xDividers + 1)

\* A mutant of the effective radius: the usable height does not limit it.
scooprad_noHeight(o) ==
    LET xcomp_w == scoop_xcomp_w(o)
        xdivscoop == o.xDividerHeight - o.HeightUnitValue
        scooprad1 == IF o.ScoopRadius > xdivscoop /\ o.xDividerHeight # 0
                     THEN xdivscoop - unitmm
                     ELSE o.ScoopRadius + 1 * unitmm
        scooprad2 == IF o.ScoopRadius > xcomp_w /\ o.xDividers > 0
                     THEN xcomp_w - 2 * unitmm
                     ELSE o.ScoopRadius + 1 * unitmm
    IN Min(o.ScoopRadius, Min(scooprad1, scooprad2))

\* make_scoop: the effective radius, min(ScoopRadius, scooprad1..3).
scooprad(o) ==
    LET xcomp_w == scoop_xcomp_w(o)
        xdivscoop == o.xDividerHeight - o.HeightUnitValue
        scooprad1 == IF o.ScoopRadius > xdivscoop /\ o.xDividerHeight # 0
                     THEN xdivscoop - unitmm
                     ELSE o.ScoopRadius + 1 * unitmm
        scooprad2 == IF o.ScoopRadius > xcomp_w /\ o.xDividers > 0
                     THEN xcomp_w - 2 * unitmm
                     ELSE o.ScoopRadius + 1 * unitmm
        scooprad3 == IF o.ScoopRadius > o.UsableHeight /\ o.UsableHeight > 0
                     THEN o.UsableHeight
                     ELSE o.ScoopRadius + 1 * unitmm
    IN Min4(o.ScoopRadius, scooprad1, scooprad2, scooprad3)

\* A mutant of the loop: every step is a compartment and a divider wide.
RECURSIVE scoop_vec_list_uniform(_, _, _, _, _)
scoop_vec_list_uniform(o, x, xtranslate, compwidth, vec_list) ==
    IF x >= o.xDividers + 1
    THEN vec_list
    ELSE scoop_vec_list_uniform(
            o, x + 1, xtranslate + compwidth + o.DividerThickness, compwidth,
            Append(vec_list,
                   Vector(-xtranslate, -o.BinUnit \div 2 + o.WallThickness, 0)))

\* make_scoop: the loop that places one scoop per compartment.
RECURSIVE scoop_vec_list(_, _, _, _, _)
scoop_vec_list(o, x, xtranslate, compwidth, vec_list) ==
    IF x >= o.xDividers + 1
    THEN vec_list
    ELSE scoop_vec_list(
            o, x + 1,
            IF x > 0
            THEN xtranslate + compwidth + o.DividerThickness
            ELSE xtranslate + o.WallThickness - o.StackingLipTopLedge
                 - o.StackingLipTopChamfer - o.StackingLipBottomChamfer
                 + compwidth + o.DividerThickness,
            compwidth,
            Append(vec_list,
                   Vector(-xtranslate, -o.BinUnit \div 2 + o.WallThickness, 0)))

\* make_scoop: the result (None, or the shape), the console messages
\* printed and the kernel constructions made, in order.
make_scoop(o) ==
    LET r == scooprad(o)
    IN IF scoop_degenerate(r)
       THEN [value |-> Absent, console |-> <<ScoopMessage>>, kernel |-> <<>>]
       ELSE
         LET x0 == o.xTotalWidth - o.BinUnit \div 2 - o.WallThickness
             v1 == Vector(x0, 0, -o.UsableHeight + r)
             v2 == Vector(x0, 0, -o.UsableHeight)
             v3 == Vector(x0 - r, 0, -o.UsableHeight)
             vc1 == Vector(x0 - r + SinPi4(r), 0, -o.UsableHeight + r - SinPi4(r))
             face == [kind |-> "face", lines |-> << <<v1, v2>>, <<v2, v3>> >>,
                      arc |-> <<v1, vc1, v3>>]
             xtranslate == 0 * unitmm - o.WallThickness + o.StackingLipTopLedge
                           + o.StackingLipTopChamfer + o.StackingLipBottomChamfer
             compwidth == (o.xTotalWidth - o.WallThickness * 2
                           - o.DividerThickness * o.xDividers) \div (o.xDividers + 1)
             scoopbox == [kind |-> "box",
                          length |-> o.StackingLipBottomChamfer + o.StackingLipTopChamfer
                                     + o.StackingLipTopLedge - o.WallThickness,
                          width |-> o.yTotalWidth - o.WallThickness * 2,
                          height |-> o.UsableHeight,
                          pnt |-> Vector(x0, -o.BinUnit \div 2 + o.WallThickness, 0),
                          dir |-> Vector(0, 0, -1)]
             scoop == [kind |-> "extrude", face |-> face,
                       vec |-> Vector(0, o.yTotalWidth - o.WallThickness * 2, 0)]
             vec_list == scoop_vec_list(o, 0, xtranslate, compwidth, <<>>)
             funcfuse == [kind |-> "fuse",
                          shapes |-> <<copy_and_translate(scoop, vec_list), scoopbox>>]
         IN [value |-> Some([kind |-> "fillet", shape |-> funcfuse,
                             radius |-> o.StackingLipBottomChamfer + o.StackingLipTopChamfer
                                        + o.StackingLipTopLedge - o.WallThickness - 1 * cmm]),
             console |-> <<>>,
             kernel |-> <<"LineSegment", "LineSegment", "Arc", "Shape", "Wire", "Face",
                          "makeBox", "extrude", "copy_and_translate", "fuse",
                          "makeFillet">>]

\* A placed shape: translate() moves the shape's placement `at`.
Origin == Vector(0, 0, 0)
translate(shape, v) == [shape EXCEPT !.at = VecAdd(@, v)]

\* create_rounded_rectangle: the wire, by its arguments and the corner
\* coordinates computed from them.
create_rounded_rectangle(xwidth, ywidth, zsketchplane, radius) ==
    [kind |-> "wire", xwidth |-> xwidth, ywidth |-> ywidth,
     zsketchplane |-> zsketchplane, radius |-> radius,
     xfarv |-> xwidth \div 2, yfarv |-> ywidth \div 2,
     xclosev |-> xwidth \div 2 - radius, yclosev |-> ywidth \div 2 - radius,
     xarcv |-> xwidth \div 2 - radius + SinPi4(radius),
     yarcv |-> ywidth \div 2 - radius + SinPi4(radius)]

\* rounded_rectangle_chamfer: a loft between two rounded rectangles.
rounded_rectangle_chamfer(xwidth, ywidth, zsketchplane, height, radius) ==
    LET w1 == create_rounded_rectangle(xwidth, ywidth, zsketchplane, radius)
        w2 == create_rounded_rectangle(xwidth + 2 * height, ywidth + 2 * height,
                                       zsketchplane + height, radius + height)
    IN [kind |-> "loft", wires |-> <<w1, w2>>, vec |-> Origin, at |-> Origin]

\* rounded_rectangle_extrude: the face of a rounded rectangle, extruded in z.
rounded_rectangle_extrude(xwidth, ywidth, zsketchplane, height, radius) ==
    LET w1 == create_rounded_rectangle(xwidth, ywidth, zsketchplane, radius)
    IN [kind |-> "extrude", wires |-> <<w1>>, vec |-> Vector(0, 0, height),
        at |-> Origin]

\* Part.makeBox(length, width, height, pnt, dir)
makeBox(length, width, height, pnt, dir) ==
    [kind |-> "box", length |-> length, width |-> width, height |-> height,
     pnt |-> pnt, dir |-> dir, at |-> Origin]

\* A mutant of the first x divider's offset: the divider's own thickness is
\* not taken back.
compartments_xtranslate0_noThickness(o, xcomp_w) ==
    zeromm + xcomp_w + o.WallThickness

\* _make_compartments_with_deviders: where the first x divider is moved to.
compartments_xtranslate0(o, xcomp_w) ==
    zeromm + xcomp_w + o.WallThickness - o.DividerThickness

\* _make_compartments_with_deviders: the loop over the dividers in x.
RECURSIVE compartments_xdiv(_, _, _, _, _, _)
compartments_xdiv(o, k, xtranslate, xcomp_w, height, xdiv) ==
    IF k >= o.xDividers
    THEN xdiv
    ELSE LET comp == makeBox(o.DividerThickness, o.yTotalWidth, height,
                             Vector(-o.BinUnit \div 2 + o.DividerThickness,
                                    -o.BinUnit \div 2, -o.TotalHeight),
                             Vector(0, 0, 1))
         IN compartments_xdiv(o, k + 1, xtranslate + xcomp_w + o.DividerThickness,
                              xcomp_w, height,
                              Append(xdiv, translate(comp, Vector(xtranslate, 0, 0))))

\* _make_compartments_with_deviders: the loop over the dividers in y.
RECURSIVE compartments_ydiv(_, _, _, _, _, _)
compartments_ydiv(o, k, ytranslate, ycomp_w, height, ydiv) ==
    IF k >= o.yDividers
    THEN ydiv
    ELSE LET comp == makeBox(o.xTotalWidth, o.DividerThickness, height,
                             Vector(-o.BinUnit \div 2, -o.BinUnit \div 2, -o.TotalHeight),
                             Vector(0, 0, 1))
         IN compartments_ydiv(o, k + 1, ytranslate + ycomp_w + o.DividerThickness,
                              ycomp_w, height,
                              Append(ydiv, translate(comp, Vector(0, ytranslate, 0))))

\* _make_compartments_no_deviders: the bottom edges are filleted.
make_compartments_no_deviders(o, func_fuse) ==
    [kind |-> "fillet", shape |-> func_fuse, cut |-> <<>>,
     radius |-> o.InsideFilletRadius, edges |-> "z0 < 0 and z1 < 0"]

\* _make_compartments_with_deviders: the dividers (the fused boxes, kept as
\* the sequence of the boxes fused) are cut out of the compartment solid.
make_compartments_with_deviders(o, func_fuse) ==
    LET xdivheight == IF o.xDividerHeight # 0 THEN o.xDividerHeight ELSE o.TotalHeight
        ydivheight == IF o.yDividerHeight # 0 THEN o.yDividerHeight ELSE o.TotalHeight
        stackingoffset == IF o.StackingLip THEN -o.LabelShelfStackingOffset ELSE 0 * unitmm
        xcomp_w == (o.xTotalWidth - o.WallThickness * 2 - o.xDividers * o.DividerThickness)
                       \div (o.xDividers + 1)
        ycomp_w == (o.yTotalWidth - o.WallThickness * 2 - o.yDividers * o.DividerThickness)
                       \div (o.yDividers + 1)
        xtranslate == compartments_xtranslate0(o, xcomp_w)
        ytranslate == zeromm + ycomp_w + o.WallThickness
        xdiv == compartments_xdiv(o, 0, xtranslate, xcomp_w,
                                  xdivheight + stackingoffset, <<>>)
        ydiv == compartments_ydiv(o, 0, ytranslate, ycomp_w,
                                  ydivheight + stackingoffset, <<>>)
    IN [kind |-> "fillet", shape |-> func_fuse, cut |-> <<xdiv, ydiv>>,
        radius |-> o.InsideFilletRadius,
        edges |-> "z0 != z1 or (z0 <= -UsableHeight and z1 <= -UsableHeight)"]

\* make_compartments: the result and the rounded rectangles built for it.
make_compartments(o) ==
    LET func_fuse == translate(
                        rounded_rectangle_extrude(
                            o.xTotalWidth - o.WallThickness * 2,
                            o.yTotalWidth - o.WallThickness * 2,
                            -o.UsableHeight, o.UsableHeight,
                            o.BinOuterRadius - o.WallThickness),
                        Vector(o.xTotalWidth \div 2 - o.BinUnit \div 2,
                               o.yTotalWidth \div 2 - o.BinUnit \div 2, 0))
    IN [value |-> Some(IF o.xDividers = 0 /\ o.yDividers = 0
                       THEN make_compartments_no_deviders(o, func_fuse)
                       ELSE make_compartments_with_deviders(o, func_fuse)),
        rects |-> func_fuse.wires]

\* Part.Shape.fuse: a fused shape is kept as the sequence of the solids
\* fused into it, in order, a solid fused twice appearing twice.
fuse(a, b) == a \o b

\* translate() of a fused shape moves every solid of it.
translate_all(shapes, v) == [k \in 1..Len(shapes) |-> translate(shapes[k], v)]

\* A mutant of the start of a column: the y offset carries over.
bin_base_column_start_carry(ytranslate) == ytranslate

\* make_bin_base: the y offset at the start of every column.
bin_base_column_start(ytranslate) == zeromm

\* make_bin_base: the loop over the cells of a column.
RECURSIVE bin_base_column(_, _, _, _, _)
bin_base_column(o, j, xtranslate, ytranslate, acc) ==
    IF j >= o.yGridUnits
    THEN [acc EXCEPT !.ytranslate = ytranslate]
    ELSE LET bt_cmf_width == o.BinUnit - 2 * o.BaseProfileBottomChamfer
                                 - 2 * o.BaseProfileTopChamfer
             vert_width == o.BinUnit - 2 * o.BaseProfileTopChamfer
             bottom_chamfer == rounded_rectangle_chamfer(
                                   bt_cmf_width, bt_cmf_width, -o.TotalHeight,
                                   o.BaseProfileBottomChamfer, o.BinBottomRadius)
             vertical_section == rounded_rectangle_extrude(
                                   vert_width, vert_width,
                                   -o.TotalHeight + o.BaseProfileBottomChamfer,
                                   o.BaseProfileVerticalSection, o.BinVerticalRadius)
             top_chamfer == rounded_rectangle_chamfer(
                                   vert_width, vert_width,
                                   -o.TotalHeight + o.BaseProfileBottomChamfer
                                       + o.BaseProfileVerticalSection,
                                   o.BaseProfileTopChamfer, o.BinVerticalRadius)
             assembly == translate_all(
                             fuse(fuse(<<bottom_chamfer>>, <<vertical_section>>),
                                  <<top_chamfer>>),
                             Vector(xtranslate, ytranslate, 0))
         IN bin_base_column(o, j + 1, xtranslate, ytranslate + o.GridSize,
                [acc EXCEPT
                    !.assembly1 = IF @ = Absent THEN Some(assembly)
                                  ELSE Some(fuse(@[1], assembly)),
                    !.rects = @ \o bottom_chamfer.wires \o vertical_section.wires
                                \o vertical_section.wires \o top_chamfer.wires])

\* make_bin_base: the loop over the columns; assembly1 is carried from one
\* column to the next.
RECURSIVE bin_base_columns(_, _, _, _)
bin_base_columns(o, i, xtranslate, acc) ==
    IF i >= o.xGridUnits
    THEN acc
    ELSE LET col == bin_base_column(o, 0, xtranslate,
                                    bin_base_column_start(acc.ytranslate), acc)
         IN bin_base_columns(o, i + 1, xtranslate + o.GridSize,
                [col EXCEPT
                    !.assembly2 = IF @ = Absent THEN col.assembly1
                                  ELSE Some(fuse(@[1], col.assembly1[1]))])

\* make_bin_base: the result (None when no cell was made) and the rounded
\* rectangles built for it.
make_bin_base(o) ==
    LET acc == bin_base_columns(o, 0, zeromm,
                   [assembly1 |-> Absent, assembly2 |-> Absent,
                    ytranslate |-> zeromm, rects |-> <<>>])
    IN [value |-> IF acc.assembly2 = Absent THEN Absent
                  ELSE Some([kind |-> "fuse", parts |-> acc.assembly2[1]]),
        rects |-> acc.rects]

\* math.sqrt, to the model's resolution (rounded down).
RECURSIVE sqrt_between(_, _, _)
sqrt_between(n, lo, hi) ==
    IF lo >= hi THEN lo
    ELSE LET mid == (lo + hi + 1) \div 2
         IN IF mid * mid <= n THEN sqrt_between(n, mid, hi)
            ELSE sqrt_between(n, lo, mid - 1)

sqrt(n) == sqrt_between(n, 0, Min(n, 46340))

\* x / math.sqrt(3), to four decimals of 1/sqrt(3).
DivSqrt3(x) == (x * 5774) \div 10000

\* Part.makeCylinder(radius, height, pnt, dir)
makeCylinder(radius, height, pnt, dir) ==
    [kind |-> "cylinder", radius |-> radius, height |-> height,
     pnt |-> pnt, dir |-> dir, at |-> Origin]

\* The sides of the polygon of a hexagonal magnet hole.
n_sides == 6

\* A temporary Part::RegularPolygon is added to the document, placed,
\* recomputed, its face extruded and the object removed again.
hex_prism(Circumradius, pnt, depth) ==
    [kind |-> "hexprism", Polygon |-> n_sides, Circumradius |-> Circumradius,
     pnt |-> pnt, vec |-> Vector(0, 0, depth), at |-> Origin]

\* A mutant of hole_pos: the distance from the edge is taken from the centre.
hole_pos_fromCentre(o) == o.MagnetHoleDistanceFromEdge

\* make_bottom_holes: where the four holes of a cell are.
hole_pos(o) == o.GridSize \div 2 - o.MagnetHoleDistanceFromEdge

hole_pnts(o) ==
    <<Vector(-hole_pos(o), -hole_pos(o), -o.TotalHeight),
      Vector(hole_pos(o), -hole_pos(o), -o.TotalHeight),
      Vector(-hole_pos(o), hole_pos(o), -o.TotalHeight),
      Vector(hole_pos(o), hole_pos(o), -o.TotalHeight)>>

\* make_bottom_holes: c1..c4 as first assigned.
magnet_holes_first(o) ==
    [k \in 1..4 |->
        IF o.MagnetHolesShape = "Hex"
        THEN hex_prism(DivSqrt3(o.MagnetHoleDiameter), hole_pnts(o)[k],
                       o.MagnetHoleDepth)
        ELSE makeCylinder(o.MagnetHoleDiameter \div 2, o.MagnetHoleDepth,
                          hole_pnts(o)[k], Vector(0, 0, 1))]

\* make_bottom_holes: c1..c4 as assigned again, the values that are fused.
magnet_holes_second(o, first) ==
    [k \in 1..4 |->
        IF o.MagnetHolesShape = "Hex"
        THEN hex_prism(o.MagnetHoleDiameter \div 2, hole_pnts(o)[k],
                       o.MagnetHoleDepth)
        ELSE makeCylinder(o.MagnetHoleDiameter \div 2, o.MagnetHoleDepth,
                          hole_pnts(o)[k], Vector(0, 0, 1))]

\* make_bottom_holes: the four screw holes of a cell.
screw_holes(o) ==
    [k \in 1..4 |->
        makeCylinder(o.ScrewHoleDiameter \div 2, o.ScrewHoleDepth,
                     hole_pnts(o)[k], Vector(0, 0, 1))]

\* make_bottom_holes: the four square bridging boxes b1..b4 of a cell.
bridging_boxes(o) ==
    LET sq_bridge2_pos == -o.GridSize \div 2 + o.MagnetHoleDistanceFromEdge
                              + o.ScrewHoleDiameter \div 2
        sqbr2_depth == o.MagnetHoleDepth + o.SequentialBridgingLayerHeight * 2
        low == -o.GridSize \div 2 + o.MagnetHoleDistanceFromEdge
                   - o.ScrewHoleDiameter \div 2
        b(x, y) == makeBox(o.ScrewHoleDiameter, o.ScrewHoleDiameter, sqbr2_depth,
                           Vector(x, y, -o.TotalHeight), Vector(0, 0, 1))
    IN <<b(-sq_bridge2_pos, -sq_bridge2_pos), b(low, -sq_bridge2_pos),
         b(-sq_bridge2_pos, low), b(low, low)>>

\* make_bottom_holes: the slot sq1_n of a cell around (cx, cy): two lines
\* and two arcs, the face extruded.
bridging_slot(o, cx, cy, arc_pt_off_x) ==
    LET arc_pt_off_y == o.ScrewHoleDiameter \div 2
        sqbr1_depth == o.MagnetHoleDepth + o.SequentialBridgingLayerHeight
        va1 == Vector(cx + arc_pt_off_x, cy + arc_pt_off_y, -o.TotalHeight)
        va2 == Vector(cx - arc_pt_off_x, cy + arc_pt_off_y, -o.TotalHeight)
        va3 == Vector(cx - arc_pt_off_x, cy - arc_pt_off_y, -o.TotalHeight)
        va4 == Vector(cx + arc_pt_off_x, cy - arc_pt_off_y, -o.TotalHeight)
        var1 == Vector(cx + o.MagnetHoleDiameter \div 2, cy, -o.TotalHeight)
        var2 == Vector(cx - o.MagnetHoleDiameter \div 2, cy, -o.TotalHeight)
    IN [kind |-> "slot", lines |-> <<<<va1, va2>>, <<va3, va4>>>>,
        arcs |-> <<<<va1, var1, va4>>, <<va2, var2, va3>>>>,
        vec |-> Vector(0, 0, sqbr1_depth), at |-> Origin]

\* make_bottom_holes: the solids fused into hm1 for the bridging of a cell.
bridging_cell(o) ==
    LET arc_pt_off_x == sqrt((o.MagnetHoleDiameter \div 2) * (o.MagnetHoleDiameter \div 2)
                             - (o.ScrewHoleDiameter \div 2) * (o.ScrewHoleDiameter \div 2))
        sq1_1 == bridging_slot(o, hole_pos(o), hole_pos(o), arc_pt_off_x)
        sq1_2 == bridging_slot(o, -hole_pos(o), hole_pos(o), arc_pt_off_x)
        sq1_3 == bridging_slot(o, hole_pos(o), -hole_pos(o), arc_pt_off_x)
        sq1_4 == bridging_slot(o, -hole_pos(o), -hole_pos(o), arc_pt_off_x)
    IN <<sq1_1>> \o bridging_boxes(o) \o <<sq1_2, sq1_3, sq1_4>>

\* make_bottom_holes: the loop over the cells of a column, hm1 being the
\* fused solids of one cell.
RECURSIVE holes_column(_, _, _, _, _, _)
holes_column(o, j, xtranslate, ytranslate, h2, hm1) ==
    IF j >= o.yGridUnits
    THEN h2
    ELSE LET moved == translate_all(hm1, Vector(xtranslate, ytranslate, 0))
         IN holes_column(o, j + 1, xtranslate, ytranslate + o.GridSize,
                         IF h2 = Absent THEN Some(moved) ELSE Some(fuse(h2[1], moved)),
                         hm1)

\* make_bottom_holes: the loop over the columns; h2 is carried from one
\* column to the next.
RECURSIVE holes_columns(_, _, _, _, _, _)
holes_columns(o, i, xtranslate, h2, h3, hm1) ==
    IF i >= o.xGridUnits
    THEN h3
    ELSE LET col == holes_column(o, 0, xtranslate, zeromm, h2, hm1)
         IN holes_columns(o, i + 1, xtranslate + o.GridSize, col,
                          IF h3 = Absent THEN col ELSE Some(fuse(h3[1], col[1])),
                          hm1)

\* make_bottom_holes: fusetotal is assigned under three conditions and then
\* returned; when none holds the name is unbound and the return raises.
bottom_holes_fusetotal(o, hm3, hs3, hsq3) ==
    IF o.ScrewHoles /\ o.MagnetHoles
    THEN IF hm3 = Absent
         THEN [value |-> Absent, raised |-> "TypeError"]
         ELSE [value |-> Some([kind |-> "fuse", parts |-> hm3[1] \o hs3[1] \o hsq3[1]]),
               raised |-> None]
    ELSE IF o.MagnetHoles /\ ~o.ScrewHoles
    THEN [value |-> IF hm3 = Absent THEN Absent
                    ELSE Some([kind |-> "fuse", parts |-> hm3[1]]),
          raised |-> None]
    ELSE IF o.ScrewHoles /\ ~o.MagnetHoles
    THEN [value |-> IF hs3 = Absent THEN Absent
                    ELSE Some([kind |-> "fuse", parts |-> hs3[1]]),
          raised |-> None]
    ELSE [value |-> Absent, raised |-> "UnboundLocalError"]

\* make_bottom_holes: the result, or the exception raised, and the number of
\* temporary polygons added to and removed from the document.
make_bottom_holes(o) ==
    LET first == magnet_holes_first(o)
        hm3 == IF o.MagnetHoles
               THEN holes_columns(o, 0, zeromm, Absent, Absent,
                                  magnet_holes_second(o, first))
               ELSE Absent
        hs3 == IF o.ScrewHoles
               THEN holes_columns(o, 0, zeromm, Absent, Absent, screw_holes(o))
               ELSE Absent
        bridged == o.ScrewHoles /\ o.MagnetHoles
        domain_error == bridged /\ o.xGridUnits > 0 /\ o.yGridUnits > 0
                        /\ o.MagnetHoleDiameter < o.ScrewHoleDiameter
        hsq3 == IF bridged /\ ~domain_error
                THEN holes_columns(o, 0, zeromm, Absent, Absent, bridging_cell(o))
                ELSE Absent
    IN (IF domain_error
        THEN [value |-> Absent, raised |-> "ValueError"]
        ELSE bottom_holes_fusetotal(o, hm3, hs3, hsq3))
       @@ [polygons |-> IF o.MagnetHoles /\ o.MagnetHolesShape = "Hex"
                        THEN 2 * 4 * o.xGridUnits * o.yGridUnits ELSE 0]

\* The document the bin lives in: it is the active document while the bin
\* is recomputed.
GeomDocument == Some(new_object(<<>>, "BinBlank"))

\* The names the document gives to Part::RegularPolygon objects: the first
\* one that is free.
PolygonNames ==
    <<"RegularPolygon", "RegularPolygon001", "RegularPolygon002",
      "RegularPolygon003", "RegularPolygon004", "RegularPolygon005">>

FreeName(doc) ==
    PolygonNames[CHOOSE n \in 1..Len(PolygonNames) :
        /\ \A k \in 1..Len(doc) : doc[k].Name # PolygonNames[n]
        /\ \A m \in 1..(n - 1) : \E k \in 1..Len(doc) : doc[k].Name = PolygonNames[m]]

\* FreeCAD.ActiveDocument.addObject("Part::RegularPolygon")
addObject(doc, type) ==
    Append(doc, [Name |-> FreeName(doc), TypeId |-> type])

\* FreeCAD.ActiveDocument.removeObject(p.Name)
removeObject(doc, name) == SelectSeq(doc, LAMBDA ob : ob.Name # name)

\* The kernel calls made on a temporary polygon between addObject and
\* removeObject.
PolygonCalls == {"recompute", "Part.Wire", "Part.Face", "extrude"}

\* make_bottom_holes, Hex: the temporary polygons n..total are added to the
\* document, used and removed, one after the other; fail names the polygon
\* and the kernel call on it that raises, if any does, and the exception
\* ends the loop.
RECURSIVE hex_polygons(_, _, _, _)
hex_polygons(doc, n, total, fail) ==
    IF n > total
    THEN [doc |-> doc, failed |-> FALSE]
    ELSE LET p == FreeName(doc)
             added == addObject(doc, "Part::RegularPolygon")
         IN IF fail # Absent /\ fail[1].polygon = n
            THEN [doc |-> added, failed |-> TRUE]
            ELSE hex_polygons(removeObject(added, p), n + 1, total, fail)

\* make_bottom_holes with the active document: the result of the call, or
\* the kernel's exception, and the document after it.
make_bottom_holes_in(o, doc, fail) ==
    LET total == IF o.MagnetHoles /\ o.MagnetHolesShape = "Hex"
                 THEN 2 * 4 * o.xGridUnits * o.yGridUnits ELSE 0
        h == hex_polygons(doc, 1, total, fail)
    IN IF h.failed
       THEN [value |-> Absent, raised |-> "KernelError", polygons |-> fail[1].polygon,
             failed |-> fail, before |-> doc, doc |-> h.doc]
       ELSE make_bottom_holes(o)
            @@ [failed |-> Absent, before |-> doc, doc |-> h.doc]

\* make_stacking_lip: the lip profile swept along the outline of the bin.
make_stacking_lip(o) ==
    LET stacking_lip_path == create_rounded_rectangle(o.xTotalWidth, o.yTotalWidth,
                                                      0, o.BinOuterRadius)
        st1 == Vector(-o.BinUnit \div 2, 0, 0)
        st2 == Vector(-o.BinUnit \div 2, 0,
                      o.StackingLipBottomChamfer + o.StackingLipVerticalSection
                          + o.StackingLipTopChamfer)
        st3 == Vector(-o.BinUnit \div 2 + o.StackingLipTopLedge, 0,
                      o.StackingLipBottomChamfer + o.StackingLipVerticalSection
                          + o.StackingLipTopChamfer)
        st4 == Vector(-o.BinUnit \div 2 + o.StackingLipTopLedge + o.StackingLipTopChamfer,
                      0, o.StackingLipBottomChamfer + o.StackingLipVerticalSection)
        st5 == Vector(-o.BinUnit \div 2 + o.StackingLipTopLedge + o.StackingLipTopChamfer,
                      0, o.StackingLipBottomChamfer)
        st6 == Vector(-o.BinUnit \div 2 + o.StackingLipTopLedge + o.StackingLipTopChamfer
                          + o.StackingLipBottomChamfer, 0, 0)
        st7 == Vector(-o.BinUnit \div 2 + o.StackingLipTopLedge + o.StackingLipTopChamfer
                          + o.StackingLipBottomChamfer, 0, -o.StackingLipVerticalSection)
        st8 == Vector(-o.BinUnit \div 2 + o.WallThickness, 0,
                      -o.StackingLipVerticalSection
                          - (o.StackingLipTopLedge + o.StackingLipTopChamfer
                             + o.StackingLipBottomChamfer - o.WallThickness))
        st9 == Vector(-o.BinUnit \div 2 + o.WallThickness, 0, 0)
    IN [value |-> Some([kind |-> "pipe", wires |-> <<stacking_lip_path>>,
                        at |-> Vector(o.xTotalWidth \div 2 - o.BinUnit \div 2,
                                      o.yTotalWidth \div 2 - o.BinUnit \div 2, 0),
                        profile |-> <<st1, st2, st3, st4, st5, st6, st7, st8, st9>>]),
        rects |-> <<stacking_lip_path>>]

\* A sequence, n times over.
RECURSIVE repeat(_, _)
repeat(seq, n) == IF n <= 0 THEN <<>> ELSE seq \o repeat(seq, n - 1)

\* A mutant of the replacement: the radius is used as computed.
eco_radius_unclamped(rad) == rad

\* make_eco_bin_cut: a corner radius of the inner base profile, replaced
\* when it is too small.
eco_radius(rad) == IF rad <= SMALL_NUMBER THEN 1 * cmm ELSE rad

\* make_eco_bin_cut: the result, or the exception raised, and the rounded
\* rectangles built for it.
make_eco_bin_cut(o) ==
    LET where == Vector(o.xTotalWidth \div 2 - o.BinUnit \div 2,
                        o.yTotalWidth \div 2 - o.BinUnit \div 2, 0)
        func_fuse == translate(
                        rounded_rectangle_extrude(
                            o.xTotalWidth - o.WallThickness * 2,
                            o.yTotalWidth - o.WallThickness * 2,
                            -o.TotalHeight + o.BaseProfileHeight + o.BaseWallThickness,
                            o.TotalHeight - o.BaseProfileHeight - o.BaseWallThickness,
                            o.BinOuterRadius - o.WallThickness),
                        where)
        base_offset == TanPi8(o.BaseWallThickness)
        bt_cmf_width == o.BinUnit - 2 * o.BaseProfileTopChamfer
                            - o.BaseWallThickness * 2 - 40 * cmm * 2
        vert_width == o.BinUnit - 2 * o.BaseProfileTopChamfer - o.BaseWallThickness * 2
        magoffset == IF o.MagnetHoles THEN o.MagnetHoleDepth ELSE 0 * unitmm
        tp_chf_offset ==
            IF o.MagnetHoles
               /\ (o.MagnetHoleDepth + o.BaseWallThickness)
                      > (o.BaseProfileBottomChamfer + o.BaseProfileVerticalSection
                         + base_offset)
            THEN (o.MagnetHoleDepth + o.BaseWallThickness)
                     - (o.BaseProfileBottomChamfer + o.BaseProfileVerticalSection
                        + base_offset)
            ELSE 0 * unitmm
        bt_chf_rad == eco_radius(o.BinVerticalRadius - 40 * cmm - o.BaseWallThickness)
        v_chf_rad == eco_radius(o.BinVerticalRadius - o.BaseWallThickness)
        bottom_chamfer == rounded_rectangle_chamfer(
                              bt_cmf_width, bt_cmf_width,
                              -o.TotalHeight + o.BaseWallThickness + magoffset,
                              40 * cmm, bt_chf_rad)
        vertical_section == rounded_rectangle_extrude(
                              vert_width, vert_width,
                              -o.TotalHeight + o.BaseWallThickness + 40 * cmm + magoffset,
                              o.BaseProfileVerticalSection + o.BaseProfileBottomChamfer
                                  + base_offset - o.BaseWallThickness - 40 * cmm,
                              v_chf_rad)
        top_chamfer == rounded_rectangle_chamfer(
                              vert_width + tp_chf_offset, vert_width + tp_chf_offset,
                              -o.TotalHeight + o.BaseProfileBottomChamfer
                                  + o.BaseProfileVerticalSection + base_offset
                                  + tp_chf_offset,
                              o.BaseProfileTopChamfer + o.BaseWallThickness - tp_chf_offset,
                              v_chf_rad)
        \* the loop over the cells is the loop of make_bottom_holes
        assembly2 == holes_columns(o, 0, zeromm, Absent, Absent,
                                   <<bottom_chamfer, vertical_section, top_chamfer>>)
        outer_trim1 == translate(
                          rounded_rectangle_extrude(
                              o.xTotalWidth - o.WallThickness * 2,
                              o.yTotalWidth - o.WallThickness * 2,
                              -o.TotalHeight, o.TotalHeight,
                              o.BinOuterRadius - o.WallThickness),
                          where)
        outer_trim2 == translate(
                          rounded_rectangle_extrude(
                              o.xTotalWidth + 20 * unitmm, o.yTotalWidth + 20 * unitmm,
                              -o.TotalHeight, o.TotalHeight - o.BaseProfileHeight,
                              o.BinOuterRadius),
                          where)
        xcomp_w == (o.xTotalWidth - o.WallThickness * 2 - o.xDividers * o.DividerThickness)
                       \div (o.xDividers + 1)
        ycomp_w == (o.yTotalWidth - o.WallThickness * 2 - o.yDividers * o.DividerThickness)
                       \div (o.yDividers + 1)
        xdivheight == IF o.xDividerHeight # 0 THEN o.xDividerHeight ELSE o.TotalHeight
        ydivheight == IF o.yDividerHeight # 0 THEN o.yDividerHeight ELSE o.TotalHeight
        \* the loops over the dividers are those of the compartments
        xdiv == compartments_xdiv(o, 0,
                                  zeromm + xcomp_w + o.WallThickness - o.DividerThickness,
                                  xcomp_w, xdivheight, <<>>)
        ydiv == compartments_ydiv(o, 0, zeromm + ycomp_w + o.WallThickness,
                                  ycomp_w, ydivheight, <<>>)
        divfil == -o.TotalHeight + o.BaseProfileHeight + o.BaseWallThickness + 1 * unitmm
        cells == IF o.xGridUnits > 0 /\ o.yGridUnits > 0
                 THEN o.xGridUnits * o.yGridUnits ELSE 0
        made == func_fuse.wires \o func_fuse.wires
                  \o repeat(bottom_chamfer.wires \o bottom_chamfer.wires
                              \o vertical_section.wires \o top_chamfer.wires, cells)
    IN IF assembly2 = Absent
       THEN [value |-> Absent, raised |-> "TypeError", rects |-> made,
             bt_chf_rad |-> bt_chf_rad, v_chf_rad |-> v_chf_rad]
       ELSE [value |-> Some([kind |-> "eco",
                             parts |-> fuse(<<func_fuse>>, assembly2[1]),
                             trim |-> <<outer_trim2, outer_trim1>>,
                             cut |-> <<xdiv, ydiv>>,
                             filleted |-> (o.xDividers # 0 \/ o.yDividers # 0),
                             radius |-> o.InsideFilletRadius,
                             divfil |-> divfil]),
             raised |-> None,
             rects |-> made \o outer_trim1.wires \o outer_trim2.wires,
             bt_chf_rad |-> bt_chf_rad, v_chf_rad |-> v_chf_rad]

\* side_b of make_label_shelf: side_a / sin(90 - beta) is the hypotenuse and
\* side_b the other leg, side_a * tan(beta); for the angles of the model.
label_shelf_side_b(side_a, beta) == IF beta = 0 THEN 0 ELSE side_a

\* abs()
abs(x) == IF x < 0 THEN -x ELSE x

\* The loops of _label_shelf_center, _label_shelf_left, _label_shelf_right:
\* one extrusion of the face per compartment, from ysp on in every column.
RECURSIVE label_shelf_column(_, _, _, _, _, _)
label_shelf_column(o, y, xtranslate, ytranslate, ycompwidth, parts) ==
    IF y >= o.yDividers + 1
    THEN parts
    ELSE label_shelf_column(o, y + 1, xtranslate,
                            ytranslate + ycompwidth + o.DividerThickness, ycompwidth,
                            Append(parts,
                                   [kind |-> "extrude",
                                    vec |-> Vector(0, o.LabelShelfLength, 0),
                                    at |-> Vector(xtranslate, ytranslate, 0)]))

RECURSIVE label_shelf_columns(_, _, _, _, _, _, _)
label_shelf_columns(o, x, xtranslate, ysp, xcompwidth, ycompwidth, parts) ==
    IF x >= o.xDividers + 1
    THEN parts
    ELSE label_shelf_columns(o, x + 1, xtranslate + xcompwidth + o.DividerThickness,
                             ysp, xcompwidth, ycompwidth,
                             label_shelf_column(o, 0, xtranslate, ysp, ycompwidth, parts))

\* The loop of _label_shelf_full_width: one extrusion per column.
RECURSIVE label_shelf_full_width_loop(_, _, _, _, _)
label_shelf_full_width_loop(o, x, xtranslate, xcompwidth, parts) ==
    IF x >= o.xDividers + 1
    THEN parts
    ELSE label_shelf_full_width_loop(o, x + 1,
             xtranslate + xcompwidth + o.DividerThickness, xcompwidth,
             Append(parts,
                    [kind |-> "extrude",
                     vec |-> Vector(0, o.yTotalWidth - o.WallThickness * 2, 0),
                     at |-> Vector(xtranslate, -o.BinUnit \div 2 + o.WallThickness, 0)]))

\* _label_shelf_full_width: the shelves, the outer corner filleted.
label_shelf_full_width(o, xcompwidth) ==
    [parts |-> label_shelf_full_width_loop(o, 0, zeromm, xcompwidth, <<>>),
     corner |-> Some(o.BinOuterRadius - o.WallThickness)]

\* _label_shelf_center: the shelves, no corner filleted.
label_shelf_center(o, xcompwidth, ycompwidth) ==
    [parts |-> label_shelf_columns(o, 0, zeromm,
                   -o.BinUnit \div 2 + o.WallThickness + ycompwidth \div 2
                       - o.LabelShelfLength \div 2,
                   xcompwidth, ycompwidth, <<>>),
     corner |-> Absent]

\* _label_shelf_left
label_shelf_left(o, xcompwidth, ycompwidth) ==
    [parts |-> label_shelf_columns(o, 0, zeromm, -o.BinUnit \div 2 + o.WallThickness,
                                   xcompwidth, ycompwidth, <<>>),
     corner |-> Some(o.BinOuterRadius - o.WallThickness)]

\* _label_shelf_right
label_shelf_right(o, xcompwidth, ycompwidth) ==
    [parts |-> label_shelf_columns(o, 0, zeromm,
                   -o.BinUnit \div 2 + o.WallThickness + ycompwidth - o.LabelShelfLength,
                   xcompwidth, ycompwidth, <<>>),
     corner |-> Some(o.BinOuterRadius - o.WallThickness)]

\* make_label_shelf: where the cut boxes go, one per column.
RECURSIVE label_shelf_vec_list(_, _, _, _, _)
label_shelf_vec_list(o, x, xtranslate, xcompwidth, vec_list) ==
    IF x >= o.xDividers + 1
    THEN vec_list
    ELSE label_shelf_vec_list(o, x + 1, xtranslate + xcompwidth + o.DividerThickness,
             xcompwidth,
             Append(vec_list, Vector(xtranslate, -o.BinUnit \div 2 + o.WallThickness, 0)))

\* make_label_shelf
make_label_shelf(o) ==
    LET towall == -o.BinUnit \div 2 + o.WallThickness
        tolabelend == -o.BinUnit \div 2 + o.StackingLipTopChamfer + o.StackingLipTopLedge
                          + o.StackingLipBottomChamfer + o.LabelShelfWidth
        stackingoffset == IF o.StackingLip THEN -o.LabelShelfStackingOffset ELSE 0 * unitmm
        xdiv == o.xDividers + 1
        ydiv == o.yDividers + 1
        xcompwidth == (o.xTotalWidth - o.WallThickness * 2
                       - o.DividerThickness * o.xDividers) \div xdiv
        ycompwidth == (o.yTotalWidth - o.WallThickness * 2
                       - o.DividerThickness * o.yDividers) \div ydiv
        shelf_angle == IF o.LabelShelfStyle = "Overhang" THEN 0 ELSE o.LabelShelfAngle
        shelf_placement ==
            IF o.LabelShelfLength > ycompwidth THEN "Full Width"
            ELSE IF o.LabelShelfStyle = "Overhang" THEN "Full Width"
            ELSE o.LabelShelfPlacement
        side_a == abs(towall - tolabelend)
        side_b == label_shelf_side_b(side_a, shelf_angle)
        v4_z == -o.LabelShelfVerticalThickness - side_b
        v1 == Vector(towall, 0, stackingoffset)
        v2 == Vector(tolabelend, 0, stackingoffset)
        v3 == Vector(tolabelend, 0, -o.LabelShelfVerticalThickness + stackingoffset)
        v4 == Vector(towall, 0, v4_z + stackingoffset)
        funcfuse == IF shelf_placement = "Full Width"
                    THEN label_shelf_full_width(o, xcompwidth)
                    ELSE IF shelf_placement = "Center"
                    THEN label_shelf_center(o, xcompwidth, ycompwidth)
                    ELSE IF shelf_placement = "Left"
                    THEN label_shelf_left(o, xcompwidth, ycompwidth)
                    ELSE label_shelf_right(o, xcompwidth, ycompwidth)
        labelshelfheight == o.LabelShelfVerticalThickness + side_b
        bottomcutbox == makeBox(labelshelfheight,
                                o.StackingLipTopChamfer + o.StackingLipTopLedge
                                    + o.StackingLipBottomChamfer + o.LabelShelfWidth
                                    - o.WallThickness,
                                o.yTotalWidth,
                                Vector(towall, 0,
                                       -o.UsableHeight - labelshelfheight + stackingoffset),
                                Vector(0, 1, 0))
    IN [value |-> Some([kind |-> "labelshelf", placement |-> shelf_placement,
                        face |-> <<v1, v2, v3, v4>>,
                        parts |-> funcfuse.parts, corner |-> funcfuse.corner,
                        radius |-> o.LabelShelfVerticalThickness - 1 * cmm,
                        cut |-> IF labelshelfheight > o.UsableHeight
                                THEN Some(copy_and_translate(bottomcutbox,
                                          label_shelf_vec_list(o, 0, zeromm,
                                                               xcompwidth, <<>>)))
                                ELSE Absent])]

\* make_baseplate_center_cut: the offsets of the cells, column by column.
RECURSIVE center_cut_column(_, _, _, _, _)
center_cut_column(o, j, xtranslate, ytranslate, vec_list) ==
    IF j >= o.yGridUnits
    THEN vec_list
    ELSE center_cut_column(o, j + 1, xtranslate, ytranslate + o.GridSize,
                           Append(vec_list, Vector(xtranslate, ytranslate, 0)))

RECURSIVE center_cut_columns(_, _, _, _)
center_cut_columns(o, i, xtranslate, vec_list) ==
    IF i >= o.xGridUnits
    THEN vec_list
    ELSE center_cut_columns(o, i + 1, xtranslate + o.GridSize,
                            center_cut_column(o, 0, xtranslate, 0, vec_list))

\* make_baseplate_center_cut: a quarter of the cutout, mirrored three times,
\* copied to every cell.
make_baseplate_center_cut(o) ==
    LET inframedis == o.GridSize \div 2 - o.BaseProfileTopChamfer
                          - o.BaseProfileBottomChamfer - o.BaseplateTopLedgeWidth
        magedge == o.GridSize \div 2 - o.MagnetHoleDistanceFromEdge
                       - o.MagnetHoleDiameter \div 2 - o.MagnetEdgeThickness
        magcenter == o.GridSize \div 2 - o.MagnetHoleDistanceFromEdge
        smfillpos == inframedis - o.SmallFillet + SinPi4(o.SmallFillet)
        smfillposmag == magedge - o.SmallFillet + SinPi4(o.SmallFillet)
        smfilloffcen == o.GridSize \div 2 - o.MagnetHoleDistanceFromEdge
                            - o.MagnetHoleDiameter \div 2 - o.MagnetEdgeThickness
                            - o.SmallFillet
        smfillins == inframedis - o.SmallFillet
        bigfillpos == o.GridSize \div 2 - o.MagnetHoleDistanceFromEdge
                          - SinPi4(o.MagnetHoleDiameter \div 2 + o.MagnetEdgeThickness)
        mec_middle == Vector(0, 0, 0)
        v1 == Vector(0, -inframedis, 0)
        v2 == Vector(-smfilloffcen, -inframedis, 0)
        v3 == Vector(-magedge, -smfillins, 0)
        v4 == Vector(-magedge, -magcenter, 0)
        v5 == Vector(-magcenter, -magedge, 0)
        v6 == Vector(-smfillins, -magedge, 0)
        v7 == Vector(-inframedis, -smfilloffcen, 0)
        v8 == Vector(-inframedis, 0, 0)
        va1 == Vector(-smfillposmag, -smfillpos, 0)
        va2 == Vector(-bigfillpos, -bigfillpos, 0)
        va3 == Vector(-smfillpos, -smfillposmag, 0)
        partial_shape1 == [kind |-> "extrude",
                           curve |-> <<<<v1, v2>>, <<v2, va1, v3>>, <<v3, v4>>,
                                       <<v4, va2, v5>>, <<v5, v6>>, <<v6, va3, v7>>,
                                       <<v7, v8>>, <<v8, mec_middle>>, <<mec_middle, v1>>>>,
                           vec |-> Vector(0, 0, -o.TotalHeight)]
        shape == [kind |-> "fuse", quarter |-> partial_shape1,
                  mirrors |-> <<<<Vector(0, 1, 0)>>, <<Vector(1, 0, 0)>>,
                                <<Vector(0, 1, 0), Vector(1, 0, 0)>>>>]
    IN [value |-> Some(copy_and_translate(shape, center_cut_columns(o, 0, 0, <<>>)))]

\* A mutant of the assignments to obj: make_eco_bin_cut writes the radius it
\* replaced back to the object.
obj_stores_clamped(fn, o) ==
    IF fn = "make_eco_bin_cut"
    THEN {<<"BinVerticalRadius",
            eco_radius(o.BinVerticalRadius - o.BaseWallThickness) + o.BaseWallThickness>>}
    ELSE {}

\* The assignments a feature construction makes to properties of obj, as
\* pairs of property and value: the constructions make none.
obj_stores(fn, o) == {}

\* obj after the assignments of a call.
setprops(o, stores) ==
    [f \in DOMAIN o |->
        IF \E st \in stores : st[1] = f
        THEN (CHOOSE st \in stores : st[1] = f)[2]
        ELSE o[f]]

(* The feature constructions, applied to the document object. *)
MakeScoop ==
    /\ ret' = Some([fn |-> "make_scoop"] @@ make_scoop(obj))
    /\ ret' # ret
    /\ obj' = setprops(obj, obj_stores(ret'[1].fn, obj))
    /\ UNCHANGED <<cmdVars, vpVars, shelfVars>>

InitGeom ==
    /\ obj \in Objs
    /\ ret = Absent
    /\ ActiveDocument = GeomDocument
    /\ GuiUp = FALSE /\ selection = 0 /\ isActive = Absent /\ lastCall = Absent
    /\ VpIdle /\ ShelfIdle

MakeCompartments ==
    /\ ret' = Some([fn |-> "make_compartments"] @@ make_compartments(obj))
    /\ ret' # ret
    /\ obj' = setprops(obj, obj_stores(ret'[1].fn, obj))
    /\ UNCHANGED <<cmdVars, vpVars, shelfVars>>

MakeBinBase ==
    /\ ret' = Some([fn |-> "make_bin_base"] @@ make_bin_base(obj))
    /\ ret' # ret
    /\ obj' = setprops(obj, obj_stores(ret'[1].fn, obj))
    /\ UNCHANGED <<cmdVars, vpVars, shelfVars>>

MakeBottomHoles ==
    /\ ret' = Some([fn |-> "make_bottom_holes"] @@ make_bottom_holes(obj))
    /\ ret' # ret
    /\ obj' = setprops(obj, obj_stores(ret'[1].fn, obj))
    /\ UNCHANGED <<cmdVars, vpVars, shelfVars>>

MakeStackingLip ==
    /\ ret' = Some([fn |-> "make_stacking_lip"] @@ make_stacking_lip(obj))
    /\ ret' # ret
    /\ obj' = setprops(obj, obj_stores(ret'[1].fn, obj))
    /\ UNCHANGED <<cmdVars, vpVars, shelfVars>>

MakeEcoBinCut ==
    /\ ret' = Some([fn |-> "make_eco_bin_cut"] @@ make_eco_bin_cut(obj))
    /\ ret' # ret
    /\ obj' = setprops(obj, obj_stores(ret'[1].fn, obj))
    /\ UNCHANGED <<cmdVars, vpVars, shelfVars>>

MakeLabelShelf ==
    /\ ret' = Some([fn |-> "make_label_shelf"] @@ make_label_shelf(obj))
    /\ ret' # ret
    /\ obj' = setprops(obj, obj_stores(ret'[1].fn, obj))
    /\ UNCHANGED <<cmdVars, vpVars, shelfVars>>

MakeBaseplateCenterCut ==
    /\ ret' = Some([fn |-> "make_baseplate_center_cut"] @@ make_baseplate_center_cut(obj))
    /\ ret' # ret
    /\ obj' = setprops(obj, obj_stores(ret'[1].fn, obj))
    /\ UNCHANGED <<cmdVars, vpVars, shelfVars>>

NextGeom ==
    \/ MakeLabelShelf
    \/ MakeBaseplateCenterCut
    \/ MakeScoop
    \/ MakeStackingLip
    \/ MakeEcoBinCut
    \/ MakeBottomHoles
    \/ MakeBinBase
    \/ MakeCompartments

SpecGeom == InitGeom /\ [][NextGeom]_vars

-----------------------------------------------------------------------------
(***************************************************************************)
(* make_bottom_holes and the document: hexagonal magnet holes are built    *)
(* from temporary objects of the active document, and the kernel may raise *)
(* on any of them.                                                         *)
(***************************************************************************)

\* The bins with hexagonal magnet holes and at least one cell.
HexObjs ==
    {o \in GridObjs : /\ o.MagnetHoles /\ o.MagnetHolesShape = "Hex"
                      /\ o.xGridUnits > 0 /\ o.yGridUnits > 0}

\* The polygons left in a document.
Leftover(doc) == {k \in 1..Len(doc) : doc[k].Name # "BinBlank"}

\* make_bottom_holes(obj) is called and every kernel call succeeds.
HexMakeBottomHoles ==
    /\ LET r == make_bottom_holes_in(obj, ActiveDocument[1], Absent)
       IN /\ ret' = Some([fn |-> "make_bottom_holes"] @@ r)
          /\ ActiveDocument' = Some(r.doc)
    /\ ret' # ret
    /\ UNCHANGED <<obj, GuiUp, selection, isActive, lastCall>>
    /\ UNCHANGED <<vpVars, shelfVars>>

\* make_bottom_holes(obj) is called and a kernel call on one of the
\* temporary polygons raises.
HexMakeBottomHolesFails ==
    /\ Cardinality(Leftover(ActiveDocument[1])) < MaxObjects
    /\ \E n \in 1..(2 * 4 * obj.xGridUnits * obj.yGridUnits), c \in PolygonCalls :
        LET r == make_bottom_holes_in(obj, ActiveDocument[1],
                                      Some([polygon |-> n, call |-> c]))
        IN /\ ret' = Some([fn |-> "make_bottom_holes"] @@ r)
           /\ ActiveDocument' = Some(r.doc)
    /\ UNCHANGED <<obj, GuiUp, selection, isActive, lastCall>>
    /\ UNCHANGED <<vpVars, shelfVars>>

InitHex ==
    /\ obj \in HexObjs
    /\ ret = Absent
    /\ ActiveDocument = GeomDocument
    /\ GuiUp = FALSE /\ selection = 0 /\ isActive = Absent /\ lastCall = Absent
    /\ VpIdle /\ ShelfIdle

NextHex ==
    \/ HexMakeBottomHoles
    \/ HexMakeBottomHolesFails

SpecHex == InitHex /\ [][NextHex]_vars

\* C17: when a kernel call fails between addObject and removeObject in the
\* Hex branch, the exception leaves make_bottom_holes and the active
\* document is as it was before the call, with no Part::RegularPolygon in it.
C17_HexFailureLeavesDocument ==
    (ret # Absent /\ ret[1].fn = "make_bottom_holes" /\ ret[1].failed # Absent) =>
        /\ ret[1].raised = "KernelError"
        /\ ret[1].doc = ret[1].before
        /\ ActiveDocument = Some(ret[1].before)
        /\ Leftover(ActiveDocument[1]) = {}

-----------------------------------------------------------------------------
(* Claims on the feature constructions *)

\* C6: make_scoop returns None exactly when the effective scoop radius
\* min(ScoopRadius, scooprad1, scooprad2, scooprad3) is <= 0; it then prints
\* one console message and makes no kernel construction; otherwise it
\* returns a shape.
C6_ScoopSentinel ==
    (ret # Absent /\ ret[1].fn = "make_scoop") =>
        LET r == ret[1]
        IN /\ (r.value = Absent) <=> (scooprad(obj) <= 0)
           /\ (r.value = Absent) =>
                 /\ r.console = <<ScoopMessage>>
                 /\ r.kernel = <<>>
           /\ (r.value # Absent) =>
                 /\ r.console = <<>>
                 /\ r.kernel # <<>>
                 /\ r.value[1].kind = "fillet"

\* No scoop could be made: a divider one height unit high leaves no room.
C6_Witness ==
    /\ ret # Absent /\ ret[1].fn = "make_scoop"
    /\ ret[1].value = Absent
    /\ scooprad(obj) = 0

\* A scoop was made.
C6_WitnessShape ==
    /\ ret # Absent /\ ret[1].fn = "make_scoop"
    /\ ret[1].value # Absent
    /\ obj.xDividers = MaxDividers

\* The properties of an object that are numbers.
NumericProps ==
    DOMAIN BaseObj \ {"StackingLip", "MagnetHoles", "ScrewHoles", "MagnetHolesShape",
                      "LabelShelfPlacement", "LabelShelfStyle"}

PositiveProps(o) == \A f \in NumericProps : o[f] > 0

\* C7: with positive property values, every rounded rectangle built by
\* make_compartments, make_bin_base, make_eco_bin_cut and make_stacking_lip
\* is given a corner radius that is positive and at most half the smaller
\* of its widths.
C7_RadiusAtMostHalfWidth ==
    (ret # Absent
     /\ ret[1].fn \in {"make_compartments", "make_bin_base",
                       "make_eco_bin_cut", "make_stacking_lip"}
     /\ PositiveProps(obj)) =>
        \A k \in 1..Len(ret[1].rects) :
            /\ ret[1].rects[k].radius > 0
            /\ 2 * ret[1].rects[k].radius
                   <= Min(ret[1].rects[k].xwidth, ret[1].rects[k].ywidth)

\* C8: with at least one grid unit each way, make_bottom_holes returns a
\* bottom-holes shape whatever the MagnetHoles and ScrewHoles flags are:
\* both, either one, or neither.
C8_BottomHolesReturnsShape ==
    (ret # Absent /\ ret[1].fn = "make_bottom_holes"
     /\ obj.xGridUnits >= 1 /\ obj.yGridUnits >= 1) =>
        /\ ret[1].raised = None
        /\ ret[1].value # Absent

\* What the construction named fn returns for o.
construction(fn, o) ==
    [fn |-> fn] @@
    CASE fn = "make_label_shelf" -> make_label_shelf(o)
      [] fn = "make_scoop" -> make_scoop(o)
      [] fn = "make_stacking_lip" -> make_stacking_lip(o)
      [] fn = "make_compartments" -> make_compartments(o)
      [] fn = "make_bin_base" -> make_bin_base(o)
      [] fn = "make_baseplate_center_cut" -> make_baseplate_center_cut(o)
      [] fn = "make_bottom_holes" -> make_bottom_holes(o)
      [] fn = "make_eco_bin_cut" -> make_eco_bin_cut(o)

C13_HexCircumradius ==
    (ret # Absent /\ ret[1].fn = "make_bottom_holes"
     /\ obj.MagnetHoles /\ obj.MagnetHolesShape = "Hex"
     /\ ret[1].value # Absent) =>
        LET parts == ret[1].value[1].parts
        IN /\ \E k \in 1..Len(parts) : parts[k].kind = "hexprism"
           /\ \A k \in 1..Len(parts) :
                parts[k].kind = "hexprism" =>
                    parts[k].Circumradius = DivSqrt3(obj.MagnetHoleDiameter)

\* The scoop profile of a result of make_scoop, and the radius it was built
\* with: the height of its vertical line.
ScoopCopies(res) == res.value[1].shape.shapes[1]
ScoopRadiusUsed(res) ==
    LET line == ScoopCopies(res).shape.face.lines[1]
    IN line[1][3] - line[2][3]

\* C14: a scoop that is built has a radius of at most ScoopRadius and, when
\* UsableHeight > 0, of at most UsableHeight.
C14_ScoopRadiusBounded ==
    (ret # Absent /\ ret[1].fn = "make_scoop" /\ ret[1].value # Absent) =>
        /\ ScoopRadiusUsed(ret[1]) > 0
        /\ ScoopRadiusUsed(ret[1]) <= obj.ScoopRadius
        /\ obj.UsableHeight > 0 => ScoopRadiusUsed(ret[1]) <= obj.UsableHeight

\* A scoop limited by the usable height alone.
C14_Witness ==
    /\ ret # Absent /\ ret[1].fn = "make_scoop" /\ ret[1].value # Absent
    /\ obj.UsableHeight > 0 /\ obj.ScoopRadius > obj.UsableHeight
    /\ ScoopRadiusUsed(ret[1]) = obj.UsableHeight

\* C15: the radius of a scoop that is built never exceeds the width of a
\* compartment in x, for every number of x dividers, zero included.
C15_ScoopRadiusAtMostCompartment ==
    (ret # Absent /\ ret[1].fn = "make_scoop" /\ ret[1].value # Absent) =>
        ScoopRadiusUsed(ret[1])
            <= (obj.xTotalWidth - 2 * obj.WallThickness
                - obj.xDividers * obj.DividerThickness) \div (obj.xDividers + 1)

\* C16: make_scoop places xDividers + 1 copies of the scoop profile; copy 0
\* is shifted in x by WallThickness - (StackingLipTopLedge +
\* StackingLipTopChamfer + StackingLipBottomChamfer), copy k >= 1 by
\* -k * (compwidth + DividerThickness), and all by -BinUnit/2 +
\* WallThickness in y.
C16_ScoopCopies ==
    (ret # Absent /\ ret[1].fn = "make_scoop" /\ ret[1].value # Absent) =>
        LET at == ScoopCopies(ret[1]).at
            compwidth == (obj.xTotalWidth - 2 * obj.WallThickness
                          - obj.xDividers * obj.DividerThickness) \div (obj.xDividers + 1)
        IN /\ Len(at) = obj.xDividers + 1
           /\ at[1][1] = obj.WallThickness
                            - (obj.StackingLipTopLedge + obj.StackingLipTopChamfer
                               + obj.StackingLipBottomChamfer)
           /\ \A k \in 1..obj.xDividers :
                at[k + 1][1] = -k * (compwidth + obj.DividerThickness)
           /\ \A k \in 1..Len(at) :
                /\ at[k][2] = -obj.BinUnit \div 2 + obj.WallThickness
                /\ at[k][3] = 0

\* A scoop in each of the compartments of a bin with the most x dividers.
C16_Witness ==
    /\ ret # Absent /\ ret[1].fn = "make_scoop" /\ ret[1].value # Absent
    /\ obj.xDividers = MaxDividers
    /\ Len(ScoopCopies(ret[1]).at) = MaxDividers + 1

\* The centre in x and y of a cutout of make_bottom_holes, and the z it
\* starts at.
Centre(p) ==
    CASE p.kind = "box" ->
            <<p.pnt[1] + p.length \div 2 + p.at[1], p.pnt[2] + p.width \div 2 + p.at[2]>>
      [] p.kind = "slot" ->
            <<(p.arcs[1][2][1] + p.arcs[2][2][1]) \div 2 + p.at[1],
              (p.arcs[1][2][2] + p.arcs[2][2][2]) \div 2 + p.at[2]>>
      [] OTHER -> <<p.pnt[1] + p.at[1], p.pnt[2] + p.at[2]>>

Bottom(p) ==
    IF p.kind = "slot" THEN p.arcs[1][1][3] + p.at[3] ELSE p.pnt[3] + p.at[3]

\* What tells the cutouts of one sort from those of another.
Sort(p) ==
    CASE p.kind = "box" -> <<"box", p.length, p.height>>
      [] p.kind = "slot" -> <<"slot", p.vec[3], p.vec[3]>>
      [] p.kind = "hexprism" -> <<"hexprism", p.Circumradius, p.vec[3]>>
      [] OTHER -> <<"cylinder", p.radius, p.height>>

\* The four hole centres of every grid cell of an object.
HoleCentres(o) ==
    LET h == o.GridSize \div 2 - o.MagnetHoleDistanceFromEdge
    IN {<<i * o.GridSize + sx * h, j * o.GridSize + sy * h>> :
            i \in 0..(o.xGridUnits - 1), j \in 0..(o.yGridUnits - 1),
            sx \in {-1, 1}, sy \in {-1, 1}}

\* C18: the cutouts of make_bottom_holes are centred at
\* (i*GridSize +/- h, j*GridSize +/- h), h = GridSize/2 -
\* MagnetHoleDistanceFromEdge, for every grid cell (i, j) and nowhere else,
\* and start at z = -TotalHeight; magnet holes, screw holes and bridging
\* boxes each have all of these centres.
C18_HoleCentres ==
    (ret # Absent /\ ret[1].fn = "make_bottom_holes" /\ ret[1].value # Absent) =>
        LET parts == ret[1].value[1].parts
            P == {parts[k] : k \in 1..Len(parts)}
        IN /\ {Centre(p) : p \in P} = HoleCentres(obj)
           /\ \A p \in P : Bottom(p) = -obj.TotalHeight
           /\ \A p \in P : {Centre(q) : q \in {r \in P : Sort(r) = Sort(p)}}
                               = HoleCentres(obj)
           /\ obj.MagnetHoles => \E p \in P : p.kind \in {"cylinder", "hexprism"}
           /\ obj.ScrewHoles => \E p \in P : p.kind = "cylinder"
           /\ (obj.MagnetHoles /\ obj.ScrewHoles) => \E p \in P : p.kind = "box"

\* Magnet holes, screw holes and bridging boxes in a bin of two by two cells.
C18_Witness ==
    /\ ret # Absent /\ ret[1].fn = "make_bottom_holes" /\ ret[1].value # Absent
    /\ obj.MagnetHoles /\ obj.ScrewHoles
    /\ obj.xGridUnits = 2 /\ obj.yGridUnits = 2
    /\ Cardinality(HoleCentres(obj)) = 16

\* C19: in make_eco_bin_cut, bt_chf_rad = BinVerticalRadius - 0.4 mm -
\* BaseWallThickness and v_chf_rad = BinVerticalRadius - BaseWallThickness
\* are replaced by 0.01 mm when they are <= 0.01 mm and used unchanged
\* otherwise; the radii passed for the inner base profile are >= 0.01 mm.
C19_EcoRadiiPositive ==
    (ret # Absent /\ ret[1].fn = "make_eco_bin_cut") =>
        LET bt == obj.BinVerticalRadius - 40 * cmm - obj.BaseWallThickness
            v == obj.BinVerticalRadius - obj.BaseWallThickness
            res == ret[1]
        IN /\ res.bt_chf_rad = (IF bt <= 1 * cmm THEN 1 * cmm ELSE bt)
           /\ res.v_chf_rad = (IF v <= 1 * cmm THEN 1 * cmm ELSE v)
           /\ res.bt_chf_rad >= 1 * cmm /\ res.v_chf_rad >= 1 * cmm
           /\ (obj.xGridUnits > 0 /\ obj.yGridUnits > 0) =>
                /\ res.rects[3].radius = res.bt_chf_rad
                /\ res.rects[5].radius = res.bt_chf_rad
                /\ res.rects[7].radius = res.v_chf_rad
                /\ res.rects[8].radius = res.v_chf_rad
                /\ \A k \in 3..9 : res.rects[k].radius >= 1 * cmm

\* The bottom radius was replaced and the vertical one was not.
C19_Witness ==
    /\ ret # Absent /\ ret[1].fn = "make_eco_bin_cut"
    /\ obj.BinVerticalRadius - 40 * cmm - obj.BaseWallThickness <= 1 * cmm
    /\ obj.BinVerticalRadius - obj.BaseWallThickness > 1 * cmm
    /\ ret[1].bt_chf_rad = 1 * cmm
    /\ ret[1].v_chf_rad = obj.BinVerticalRadius - obj.BaseWallThickness
    /\ ret[1].rects[3].radius = 1 * cmm

\* A negative bottom radius was replaced, with the vertical one exactly 0.01 mm.
C19_WitnessNegative ==
    /\ ret # Absent /\ ret[1].fn = "make_eco_bin_cut"
    /\ obj.BinVerticalRadius - 40 * cmm - obj.BaseWallThickness < 0
    /\ obj.BinVerticalRadius - obj.BaseWallThickness = 1 * cmm
    /\ ret[1].bt_chf_rad = 1 * cmm
    /\ ret[1].v_chf_rad = 1 * cmm

\* The offsets of the grid cells of an object.
CellOffsets(o) ==
    {Vector(i * o.GridSize, j * o.GridSize, 0) :
        i \in 0..(o.xGridUnits - 1), j \in 0..(o.yGridUnits - 1)}

\* The solids of a fused shape that sit at offset v, by kind and height.
SolidsAt(shapes, v) ==
    {[kind |-> shapes[k].kind, z |-> shapes[k].wires[1].zsketchplane] :
        k \in {n \in 1..Len(shapes) : shapes[n].at = v}}

\* C9: with at least one grid unit each way, make_bin_base returns the union
\* of one unit base profile (bottom chamfer, vertical section, top chamfer)
\* per grid cell, the offsets in the result being exactly
\* (i*GridSize, j*GridSize, 0) for 0 <= i < xGridUnits, 0 <= j < yGridUnits;
\* with either count 0 it returns None.
C9_BinBaseOnePerCell ==
    (ret # Absent /\ ret[1].fn = "make_bin_base") =>
        IF obj.xGridUnits >= 1 /\ obj.yGridUnits >= 1
        THEN /\ ret[1].value # Absent
             /\ LET shapes == ret[1].value[1].parts
                IN /\ {shapes[k].at : k \in 1..Len(shapes)} = CellOffsets(obj)
                   /\ \A v \in CellOffsets(obj) :
                        SolidsAt(shapes, v) =
                            {[kind |-> "loft", z |-> -obj.TotalHeight],
                             [kind |-> "extrude",
                              z |-> -obj.TotalHeight + obj.BaseProfileBottomChamfer],
                             [kind |-> "loft",
                              z |-> -obj.TotalHeight + obj.BaseProfileBottomChamfer
                                        + obj.BaseProfileVerticalSection]}
        ELSE ret[1].value = Absent

\* A base of two columns of two cells: the first column is fused in again
\* with the second, and the offsets are still one per cell.
C9_Witness ==
    /\ ret # Absent /\ ret[1].fn = "make_bin_base"
    /\ obj.xGridUnits = 2 /\ obj.yGridUnits = 2
    /\ ret[1].value # Absent
    /\ Len(ret[1].value[1].parts) > 3 * 4

\* A base without cells is None.
C9_WitnessNone ==
    /\ ret # Absent /\ ret[1].fn = "make_bin_base"
    /\ obj.xGridUnits = 2 /\ obj.yGridUnits = 0
    /\ ret[1].value = Absent

\* The interval [lo, hi] a box occupies along axis a (1: x, 2: y).
BoxLo(b, a) == b.pnt[a] + b.at[a]
BoxHi(b, a) == BoxLo(b, a) + (IF a = 1 THEN b.length ELSE b.width)

\* The widths of the gaps that the dividers `div` leave between the inner
\* faces of the walls of the compartment solid `body`, along axis a.
CompartmentWidths(body, div, a) ==
    LET w == body.wires[1]
        lo == body.at[a] - (IF a = 1 THEN w.xfarv ELSE w.yfarv)
        hi == body.at[a] + (IF a = 1 THEN w.xfarv ELSE w.yfarv)
        n == Len(div)
    IN [k \in 1..(n + 1) |->
            (IF k = n + 1 THEN hi ELSE BoxLo(div[k], a))
            - (IF k = 1 THEN lo ELSE BoxHi(div[k - 1], a))]

\* C10: the k-th x divider (k from 0) occupies x from
\* -BinUnit/2 + WallThickness + (k+1)*xcomp_w + k*DividerThickness to that
\* plus DividerThickness, likewise in y; so the xDividers+1 (yDividers+1)
\* compartments are all xcomp_w (ycomp_w) wide, and walls, compartments and
\* dividers add up to xTotalWidth (yTotalWidth).
C10_DividersSplitEvenly ==
    (ret # Absent /\ ret[1].fn = "make_compartments"
     /\ (obj.xDividers # 0 \/ obj.yDividers # 0)) =>
        LET sh == ret[1].value[1]
            xdiv == sh.cut[1]
            ydiv == sh.cut[2]
            xcomp_w == (obj.xTotalWidth - 2 * obj.WallThickness
                        - obj.xDividers * obj.DividerThickness) \div (obj.xDividers + 1)
            ycomp_w == (obj.yTotalWidth - 2 * obj.WallThickness
                        - obj.yDividers * obj.DividerThickness) \div (obj.yDividers + 1)
            xw == CompartmentWidths(sh.shape, xdiv, 1)
            yw == CompartmentWidths(sh.shape, ydiv, 2)
        IN /\ Len(xdiv) = obj.xDividers /\ Len(ydiv) = obj.yDividers
           /\ \A k \in 0..(obj.xDividers - 1) :
                /\ BoxLo(xdiv[k + 1], 1) = -obj.BinUnit \div 2 + obj.WallThickness
                        + (k + 1) * xcomp_w + k * obj.DividerThickness
                /\ BoxHi(xdiv[k + 1], 1) = BoxLo(xdiv[k + 1], 1) + obj.DividerThickness
           /\ \A k \in 0..(obj.yDividers - 1) :
                /\ BoxLo(ydiv[k + 1], 2) = -obj.BinUnit \div 2 + obj.WallThickness
                        + (k + 1) * ycomp_w + k * obj.DividerThickness
                /\ BoxHi(ydiv[k + 1], 2) = BoxLo(ydiv[k + 1], 2) + obj.DividerThickness
           /\ \A k \in 1..(obj.xDividers + 1) : xw[k] = xcomp_w
           /\ \A k \in 1..(obj.yDividers + 1) : yw[k] = ycomp_w
           /\ 2 * obj.WallThickness + (obj.xDividers + 1) * xcomp_w
                 + obj.xDividers * obj.DividerThickness = obj.xTotalWidth
           /\ 2 * obj.WallThickness + (obj.yDividers + 1) * ycomp_w
                 + obj.yDividers * obj.DividerThickness = obj.yTotalWidth

\* A two-unit bin cut by the most dividers in x and one in y.
C10_Witness ==
    /\ ret # Absent /\ ret[1].fn = "make_compartments"
    /\ obj.xDividers = MaxDividers /\ obj.yDividers = 1
    /\ obj.xGridUnits = 2
    /\ Len(ret[1].value[1].cut[1]) = MaxDividers

====
